---- MODULE Spec2Model ----
(***************************************************************************)
(* GameArena: the Pac-Man referee (referees/pacman_referee_v2.py) and the  *)
(* bot runner (game_sdk.py, runner/docker_runner.py) as state machines.    *)
(***************************************************************************)
EXTENDS Integers, Sequences, FiniteSets, TLC

VARIABLES
    cfg,         \* init_params as applied by init_game, and the generated grid
    pacs,        \* self.pacs      : pac_id -> Pac
    pellets,     \* self.pellets   : set of (x, y)
    cherries,    \* self.cherries  : set of (x, y)
    scores,      \* self.scores    : side -> int
    turn,        \* self.turn
    bot_failed,  \* self.bot_failed: "none" (None) or a side
    history,     \* self.history   : sequence of entries
    awards,      \* number of times is_finished credited the remaining points
    run_path,    \* the runner's execution path in use, "none" between invocations
    run_pc,      \* where the invocation stands: "idle", "waiting", "returned"
    elapsed,     \* ticks spent in communicate(timeout=...) or join(timeout)
    bot_exec,    \* the process, container or thread that executes the bot
    client,      \* the docker CLI process (docker run, docker start -a -i)
    result,      \* the (stderr, rc) the invocation returned
    runs,        \* invocations ended so far
    leaked,      \* bot executions of earlier invocations that still run
    call_pc,     \* _run_bot_for_role / BotRunner.run: the statement reached
    call_args,   \* the runner mode, timeout_ms and the bot of the call
    parsed_store,\* game['parsed_bots'][role] is set
    stage,       \* which _run_docker call of BotRunner.run is in progress
    attempts,    \* the _run_docker / _run_subprocess calls of this call
    execs,       \* the executions of the bot's code started by this call
    call_ret,    \* what _run_bot_for_role returned
    req_pc,      \* step_game: the statement each request's thread has reached
    req_actions, \* step_game: the local `actions` of each request
    fn_pc,       \* a function of the library called on its own: called or returned
    fn_args,     \* the arguments of that call
    fn_ret,      \* what the call returned
    match_pc,    \* run_match of run_referee.py: the statement reached
    match_turn,  \* run_match: the local `turn`
    proc,        \* run_match: player_proc and opponent_proc
    ref_v1       \* run_match: ref, the PacmanReferee of the match

engineVars == <<cfg, pacs, pellets, cherries, scores, turn, bot_failed, history, awards>>

runnerVars == <<run_path, run_pc, elapsed, bot_exec, client, result, runs, leaked>>

callVars == <<call_pc, call_args, parsed_store, stage, attempts, execs, call_ret>>

libVars == <<fn_pc, fn_args, fn_ret>>

matchVars == <<match_pc, match_turn, proc, ref_v1>>

hostVars == <<callVars, libVars, matchVars>>

svcVars == <<req_pc, req_actions>>

vars == <<engineVars, runnerVars, hostVars, svcVars>>

----------------------------------------------------------------------------
(* Bounds of the model *)

\* self.max_turns is 200 in the source; the model plays shorter matches.
MaxTurns == 3

\* Calls of step in one match. step() does not look at is_finished, so the
\* model allows one call more than MaxTurns.
MaxSteps == 4

\* Commands one side issues in one turn.
MaxCmds == 1

\* Calls of on_bot_timeout in one match.
MaxTimeouts == 1

\* Times the remaining points may be credited again by is_finished/get_state.
MaxAwards == 2

\* The deadline of one bot invocation (timeout_ms), in ticks.
TimeoutTicks == 2

\* The longest a bot works on one turn, in ticks; more than TimeoutTicks.
MaxWork == 4

\* Bot invocations in one match.
MaxRuns == 2

\* Calls of step in the matches that follow an ability through its cooldown.
AbilitySteps == 12

\* Commands the player issues in one turn of those matches.
AbilityCmds == 2

\* Turns of the matches whose bots write their commands as text.
CodecTurns == 2

\* Sub-commands on the line a bot writes in those matches.
CodecCmds == 2

\* The width and the height of the grids _bfs_path is called on.
PathW == 4

PathH == 2

\* The largest width and height of the grids generated.
MazeW == 6

MazeH == 5

\* The largest coordinate, and the number of commands at most, of the lines
\* written and read back.
RoundCoord == 3

RoundCmds == 2

\* Calls of step in the matches whose turn inputs are made, and the size of
\* the grid of the referee with one pac a side.
InputSteps == 1

V1W == 2

V1H == 2

\* The largest pacs_per_player of the matches set up on those grids.
SpawnPacs == 2

\* max_turns of run_match and of its referee (200 in the source).
MatchTurns == 2

\* Commands one side issues in one turn of the matches on the ring and of
\* the single turn of the teams.
ActionCmds == 2

----------------------------------------------------------------------------
(* PacType *)

ROCK == 0
PAPER == 1
SCISSORS == 2
NEUTRAL == -1

\* Mutation of beats: a pac of any of the three types beats a Neutral pac.
beats_neutral(type1, type2) ==
    IF type1 # NEUTRAL /\ type2 = NEUTRAL THEN TRUE
    ELSE \/ type1 = ROCK /\ type2 = SCISSORS
         \/ type1 = PAPER /\ type2 = ROCK
         \/ type1 = SCISSORS /\ type2 = PAPER

\* Mutation of beats: the types are compared by their numbers.
beats_by_rank(type1, type2) ==
    IF type1 = NEUTRAL \/ type2 = NEUTRAL THEN FALSE
    ELSE type1 > type2

beats(type1, type2) ==
    IF type1 = NEUTRAL \/ type2 = NEUTRAL THEN FALSE
    ELSE IF type1 = ROCK /\ type2 = SCISSORS THEN TRUE
    ELSE IF type1 = PAPER /\ type2 = ROCK THEN TRUE
    ELSE IF type1 = SCISSORS /\ type2 = PAPER THEN TRUE
    ELSE FALSE

Sides == <<"player", "opponent">>

SideSet == {"player", "opponent"}

Other(side) == IF side = "player" THEN "opponent" ELSE "player"

cherry_score == 10

----------------------------------------------------------------------------
(* Pac *)

Pac(pac_id, owner, position, pac_type) ==
    [id |-> pac_id, owner |-> owner, position |-> position, type |-> pac_type,
     speed |-> 1, ability_duration |-> 0, ability_cooldown |-> 0, dead |-> FALSE]

\* Mutation of can_use_ability: the cooldown is not looked at.
can_use_ability_always(pac) == TRUE

can_use_ability(pac) == pac.ability_cooldown = 0

\* activate_speed returns (new pac, success)
activate_speed(pac) ==
    IF can_use_ability(pac)
    THEN [pac EXCEPT !.speed = 2, !.ability_duration = 6, !.ability_cooldown = 10]
    ELSE pac

switch_type(pac, new_type) ==
    IF can_use_ability(pac)
    THEN [pac EXCEPT !.type = new_type, !.ability_cooldown = 10]
    ELSE pac

\* Mutation of tick: the speed is not set back when the duration runs out.
tick_keeps_speed(pac) ==
    LET d1 == IF pac.ability_duration > 0 THEN pac.ability_duration - 1
              ELSE pac.ability_duration
        c1 == IF pac.ability_cooldown > 0 THEN pac.ability_cooldown - 1
              ELSE pac.ability_cooldown
    IN [pac EXCEPT !.ability_duration = d1, !.ability_cooldown = c1]

tick(pac) ==
    LET d1 == IF pac.ability_duration > 0 THEN pac.ability_duration - 1
              ELSE pac.ability_duration
        s1 == IF pac.ability_duration > 0 /\ d1 = 0 THEN 1 ELSE pac.speed
        c1 == IF pac.ability_cooldown > 0 THEN pac.ability_cooldown - 1
              ELSE pac.ability_cooldown
    IN [pac EXCEPT !.ability_duration = d1, !.speed = s1, !.ability_cooldown = c1]

----------------------------------------------------------------------------
(* The grid.  generate_with_horizontal_symmetry is random; this is a      *)
(* layout it returns for width 5 and height 5, given as its floor cells.  *)

\* width 5, height 5:   #####
\*                      #####
\*                      #...#
\*                      ##.##
\*                      #####
GridC == [width |-> 5, height |-> 5,
          floor |-> {<<1, 2>>, <<2, 2>>, <<3, 2>>, <<2, 3>>}]

\* Another layout it returns, for width 7 and height 4: one row of floor
\* from the first to the last column, which the wrap closes into a ring.
\*                      #######
\*                      #######
\*                      .......
\*                      #######
GridR == [width |-> 7, height |-> 4,
          floor |-> {<<x, 2>> : x \in 0..6}]

IsFloor(grid, x, y) == <<x, y>> \in grid.floor

----------------------------------------------------------------------------
(* _bfs_path *)

\* Mutation of Dirs: the search never goes left.
Dirs_no_left == <<<<0, -1>>, <<1, 0>>, <<0, 1>>>>

Dirs == <<<<0, -1>>, <<1, 0>>, <<0, 1>>, <<-1, 0>>>>

\* The for loop over the four directions of one dequeued (cell, path); the
\* result carries the path found (<<>> while none), the queue and visited.
RECURSIVE bfs_dirs(_, _, _, _, _, _)
bfs_dirs(grid, target, path, i, queue, visited) ==
    IF i > Len(Dirs) THEN [found |-> <<>>, queue |-> queue, visited |-> visited]
    ELSE LET cur == path[Len(path)]
             nx0 == cur[1] + Dirs[i][1]
             ny  == cur[2] + Dirs[i][2]
             nx  == IF nx0 < 0 THEN grid.width - 1
                    ELSE IF nx0 >= grid.width THEN 0 ELSE nx0
         IN IF ~(0 <= ny /\ ny < grid.height)
            THEN bfs_dirs(grid, target, path, i + 1, queue, visited)
            ELSE IF ~IsFloor(grid, nx, ny)
            THEN bfs_dirs(grid, target, path, i + 1, queue, visited)
            ELSE IF <<nx, ny>> \in visited
            THEN bfs_dirs(grid, target, path, i + 1, queue, visited)
            ELSE IF <<nx, ny>> = target
            THEN [found |-> Append(path, <<nx, ny>>), queue |-> queue, visited |-> visited]
            ELSE bfs_dirs(grid, target, path, i + 1,
                          Append(queue, Append(path, <<nx, ny>>)),
                          visited \cup {<<nx, ny>>})

\* the "while queue" loop; r is the outcome of the for loop just run
RECURSIVE bfs_loop(_, _, _, _)
bfs_after_dirs(grid, target, r) ==
    IF r.found # <<>> THEN r.found
    ELSE bfs_loop(grid, target, r.queue, r.visited)

bfs_loop(grid, target, queue, visited) ==
    IF queue = <<>> THEN <<>>
    ELSE bfs_after_dirs(grid, target,
             bfs_dirs(grid, target, Head(queue), 1, Tail(queue), visited))

\* None is modelled as the empty sequence.
bfs_path(grid, start, target) ==
    IF start = target THEN <<start>>
    ELSE bfs_loop(grid, target, <<<<start>>>>, {start})

----------------------------------------------------------------------------
(* _spawn_pacs *)

\* left_positions after the two stable sorts: by y, then by x ascending.
LeftLess(a, b) == a[2] < b[2] \/ (a[2] = b[2] /\ a[1] < b[1])

\* right_positions after the two stable sorts: by y, then by width - x ascending.
RightLess(a, b) == a[2] < b[2] \/ (a[2] = b[2] /\ a[1] > b[1])

\* A finite set of cells as the list sorted by LeftLess or by RightLess.
RECURSIVE SortCells(_, _)
SortCells(S, right) ==
    IF S = {} THEN <<>>
    ELSE LET m == CHOOSE a \in S : \A b \in S \ {a} :
                      IF right THEN RightLess(a, b) ELSE LeftLess(a, b)
         IN <<m>> \o SortCells(S \ {m}, right)

left_positions(grid) ==
    SortCells({c \in grid.floor : /\ 1 <= c[2] /\ c[2] <= grid.height - 2
                                  /\ 1 <= c[1] /\ c[1] < grid.width \div 2},
              FALSE)

right_positions(grid) ==
    SortCells({c \in grid.floor : /\ 1 <= c[2] /\ c[2] <= grid.height - 2
                                  /\ grid.width \div 2 + 1 <= c[1] /\ c[1] <= grid.width - 2},
              TRUE)

Max2(a, b) == IF a >= b THEN a ELSE b

Min2(a, b) == IF a <= b THEN a ELSE b

\* types[i % len(types)], i counted from 0
spawn_type(c, i) ==
    IF ~c.switch_ability_available THEN NEUTRAL
    ELSE <<ROCK, PAPER, SCISSORS>>[(i % 3) + 1]

\* position of the i-th pac (i from 0) taken from the sorted list
spawn_pos(positions, n, i) ==
    LET step == Max2(1, Len(positions) \div (n + 1))
        idx  == Min2((i + 1) * step, Len(positions) - 1)
    IN positions[idx + 1]

spawn_pacs(c) ==
    LET n == c.pacs_per_player
    IN [pac_id \in 1..(2 * n) |->
          IF pac_id <= n
          THEN Pac(pac_id, "player",
                   spawn_pos(left_positions(c.grid), n, pac_id - 1),
                   spawn_type(c, pac_id - 1))
          ELSE Pac(pac_id, "opponent",
                   spawn_pos(right_positions(c.grid), n, pac_id - n - 1),
                   spawn_type(c, pac_id - n - 1))]

----------------------------------------------------------------------------
(* init_game *)

\* The init_params of the matches with one pac a side.
SoloConfigs ==
    { [grid |-> GridC, pacs_per_player |-> 1, num_cherries |-> 0,
       speed_ability_available |-> TRUE, switch_ability_available |-> TRUE],
      [grid |-> GridC, pacs_per_player |-> 1, num_cherries |-> 1,
       speed_ability_available |-> FALSE, switch_ability_available |-> FALSE] }

\* The init_params of the matches with two pacs a side.
TeamConfigs ==
    { [grid |-> GridC, pacs_per_player |-> 2, num_cherries |-> 0,
       speed_ability_available |-> FALSE, switch_ability_available |-> TRUE] }

PacPositions(ps) == {ps[i].position : i \in DOMAIN ps}

\* Mutation of init_pellets: a pellet on every cell of the grid, walls too.
init_pellets_on_walls(c) ==
    ((0..(c.grid.width - 1)) \X (0..(c.grid.height - 1))) \ PacPositions(spawn_pacs(c))

\* pellets on every floor cell, minus the spawn cells
init_pellets(c) == c.grid.floor \ PacPositions(spawn_pacs(c))

\* _place_cherries: random.sample(available, num_cherries)
cherry_choices(c) ==
    LET available == init_pellets(c)
        k == Min2(c.num_cherries, Cardinality(available))
    IN {S \in SUBSET available : Cardinality(S) = k}

\* An entry of self.history: the turn, and what its stderr reports.
HistoryEntry(t, err) == [turn |-> t, stderr |-> err]

init_game(c) ==
    /\ cfg = c
    /\ pacs = spawn_pacs(cfg)
    /\ \E ch \in cherry_choices(cfg) :
          /\ cherries = ch
          /\ pellets = init_pellets(cfg) \ ch
    /\ scores = [s \in SideSet |-> 0]
    /\ turn = 0
    /\ bot_failed = "none"
    /\ history = <<HistoryEntry(0, "")>>
    /\ awards = 0

----------------------------------------------------------------------------
(* is_finished, get_winner, get_state *)

alive(ps, side) == \E i \in DOMAIN ps : ps[i].owner = side /\ ~ps[i].dead

remaining_points(pel, ch) == Cardinality(pel) + Cardinality(ch) * cherry_score

Abs(n) == IF n < 0 THEN -n ELSE n

\* True when is_finished reaches the branch that credits the survivor.
is_finished_awards(bf, t, ps) ==
    /\ bf = "none"
    /\ t < MaxTurns
    /\ ~alive(ps, "player") \/ ~alive(ps, "opponent")

\* self.scores after a call of is_finished
is_finished_scores(bf, t, ps, pel, ch, sc) ==
    IF is_finished_awards(bf, t, ps)
    THEN IF ~alive(ps, "player") /\ alive(ps, "opponent")
         THEN [sc EXCEPT !["opponent"] = @ + remaining_points(pel, ch)]
         ELSE IF ~alive(ps, "opponent") /\ alive(ps, "player")
         THEN [sc EXCEPT !["player"] = @ + remaining_points(pel, ch)]
         ELSE sc
    ELSE sc

\* Mutation of is_finished: the turn limit is not looked at.
is_finished_no_turn_limit(bf, t, ps, pel, ch, sc) ==
    IF bf # "none" THEN TRUE
    ELSE IF ~alive(ps, "player") \/ ~alive(ps, "opponent") THEN TRUE
    ELSE IF Abs(sc["player"] - sc["opponent"]) > remaining_points(pel, ch) THEN TRUE
    ELSE FALSE

\* the value returned by is_finished
is_finished(bf, t, ps, pel, ch, sc) ==
    IF bf # "none" THEN TRUE
    ELSE IF t >= MaxTurns THEN TRUE
    ELSE IF ~alive(ps, "player") \/ ~alive(ps, "opponent") THEN TRUE
    ELSE IF Abs(sc["player"] - sc["opponent"]) > remaining_points(pel, ch) THEN TRUE
    ELSE FALSE

get_winner(sc) ==
    IF sc["player"] > sc["opponent"] THEN "player"
    ELSE IF sc["opponent"] > sc["player"] THEN "opponent"
    ELSE "draw"

\* state['winner'] of get_state: set only when is_finished() is true, and
\* computed after is_finished() has run.
get_state_winner(bf, t, ps, pel, ch, sc) ==
    IF is_finished(bf, t, ps, pel, ch, sc)
    THEN get_winner(is_finished_scores(bf, t, ps, pel, ch, sc))
    ELSE "unset"

----------------------------------------------------------------------------
(* step: commands *)

MoveCmd(pac_id, target) ==
    [kind |-> "MOVE", pac |-> pac_id, target |-> target, new_type |-> NEUTRAL]

SpeedCmd(pac_id) ==
    [kind |-> "SPEED", pac |-> pac_id, target |-> <<0, 0>>, new_type |-> NEUTRAL]

SwitchCmd(pac_id, new_type) ==
    [kind |-> "SWITCH", pac |-> pac_id, target |-> <<0, 0>>, new_type |-> new_type]

\* Mutation of owned_living: the owner of the pac is not looked at.
owned_living_any_owner(ps, pac_id, bot_id) ==
    pac_id \in DOMAIN ps /\ ~ps[pac_id].dead

\* "not pac or pac.dead or pac.owner != bot_id" is false
owned_living(ps, pac_id, bot_id) ==
    pac_id \in DOMAIN ps /\ ~ps[pac_id].dead /\ ps[pac_id].owner = bot_id

\* Mutation of cleanup: the dead pacs stay in the roster.
cleanup_keeps_dead(ps) == ps

\* Phase 0: remove the pacs that died in the previous turn
cleanup(ps) == [i \in {j \in DOMAIN ps : ~ps[j].dead} |-> ps[i]]

\* Phase 1
tick_all(ps) == [i \in DOMAIN ps |-> IF ~ps[i].dead THEN tick(ps[i]) ELSE ps[i]]

\* Phase 2, first loop over one side's commands: SPEED and SWITCH
RECURSIVE apply_abilities(_, _, _, _)
apply_abilities(c, ps, bot_id, cmds) ==
    IF cmds = <<>> THEN ps
    ELSE LET cmd == Head(cmds)
         IN IF cmd.kind = "SPEED"
            THEN IF ~c.speed_ability_available
                 THEN apply_abilities(c, ps, bot_id, Tail(cmds))
                 ELSE IF ~owned_living(ps, cmd.pac, bot_id)
                 THEN apply_abilities(c, ps, bot_id, Tail(cmds))
                 ELSE apply_abilities(c, [ps EXCEPT ![cmd.pac] = activate_speed(@)],
                                      bot_id, Tail(cmds))
            ELSE IF cmd.kind = "SWITCH"
            THEN IF ~c.switch_ability_available
                 THEN apply_abilities(c, ps, bot_id, Tail(cmds))
                 ELSE IF ~owned_living(ps, cmd.pac, bot_id)
                 THEN apply_abilities(c, ps, bot_id, Tail(cmds))
                 ELSE apply_abilities(c, [ps EXCEPT ![cmd.pac] = switch_type(@, cmd.new_type)],
                                      bot_id, Tail(cmds))
            ELSE apply_abilities(c, ps, bot_id, Tail(cmds))

\* intentions[pac_id] = {...}: a dict keeps the place of a key it already has
set_intention(intentions, rec) ==
    IF \E k \in 1..Len(intentions) : intentions[k].pac_id = rec.pac_id
    THEN [k \in 1..Len(intentions) |->
            IF intentions[k].pac_id = rec.pac_id THEN rec ELSE intentions[k]]
    ELSE Append(intentions, rec)

\* Phase 2, second loop over one side's commands: MOVE
RECURSIVE collect_moves(_, _, _, _, _)
\* "if path:" for the path the BFS found for cmd
collect_path(c, ps, bot_id, cmds, intentions, cmd, path) ==
    IF path = <<>>
    THEN collect_moves(c, ps, bot_id, Tail(cmds), intentions)
    ELSE collect_moves(c, ps, bot_id, Tail(cmds),
             set_intention(intentions,
                 [pac_id |-> cmd.pac, path |-> path, steps |-> ps[cmd.pac].speed]))

collect_moves(c, ps, bot_id, cmds, intentions) ==
    IF cmds = <<>> THEN intentions
    ELSE IF Head(cmds).kind = "MOVE"
    THEN IF ~owned_living(ps, Head(cmds).pac, bot_id)
         THEN collect_moves(c, ps, bot_id, Tail(cmds), intentions)
         ELSE collect_path(c, ps, bot_id, cmds, intentions, Head(cmds),
                  bfs_path(c.grid, ps[Head(cmds).pac].position, Head(cmds).target))
    ELSE collect_moves(c, ps, bot_id, Tail(cmds), intentions)

\* Phase 2 for actions_by_bot = {'player': ..., 'opponent': ...}: the pacs
\* after the abilities, and the intentions in insertion order.
RECURSIVE phase2(_, _, _, _, _)
phase2_moves(c, ps1, actions_by_bot, b, intentions) ==
    phase2(c, ps1, actions_by_bot, b + 1,
           collect_moves(c, ps1, Sides[b], actions_by_bot[Sides[b]], intentions))

phase2(c, ps, actions_by_bot, b, intentions) ==
    IF b > Len(Sides) THEN [pacs |-> ps, intentions |-> intentions]
    ELSE phase2_moves(c, apply_abilities(c, ps, Sides[b], actions_by_bot[Sides[b]]),
                      actions_by_bot, b, intentions)

\* A line step adds to stderr: the side, what is reported, and the pac named
\* (0 in the lines that name none).
Diagnostic(bot_id, what, pac_id) == [bot |-> bot_id, what |-> what, pac |-> pac_id]

\* the lines the first loop of Phase 2 adds to stderr for one side
RECURSIVE ability_diagnostics(_, _, _, _)
ability_diagnostics(c, ps, bot_id, cmds) ==
    IF cmds = <<>> THEN {}
    ELSE LET cmd == Head(cmds)
         IN IF cmd.kind = "SPEED"
            THEN IF ~c.speed_ability_available
                 THEN {Diagnostic(bot_id, "SPEED ability not available", 0)}
                      \cup ability_diagnostics(c, ps, bot_id, Tail(cmds))
                 ELSE IF ~owned_living(ps, cmd.pac, bot_id)
                 THEN ability_diagnostics(c, ps, bot_id, Tail(cmds))
                 ELSE (IF can_use_ability(ps[cmd.pac]) THEN {}
                       ELSE {Diagnostic(bot_id, "cannot use SPEED (cooldown)", cmd.pac)})
                      \cup ability_diagnostics(c, [ps EXCEPT ![cmd.pac] = activate_speed(@)],
                                               bot_id, Tail(cmds))
            ELSE IF cmd.kind = "SWITCH"
            THEN IF ~c.switch_ability_available
                 THEN {Diagnostic(bot_id, "SWITCH ability not available", 0)}
                      \cup ability_diagnostics(c, ps, bot_id, Tail(cmds))
                 ELSE IF ~owned_living(ps, cmd.pac, bot_id)
                 THEN ability_diagnostics(c, ps, bot_id, Tail(cmds))
                 ELSE (IF can_use_ability(ps[cmd.pac]) THEN {}
                       ELSE {Diagnostic(bot_id, "cannot SWITCH (cooldown)", cmd.pac)})
                      \cup ability_diagnostics(c,
                               [ps EXCEPT ![cmd.pac] = switch_type(@, cmd.new_type)],
                               bot_id, Tail(cmds))
            ELSE ability_diagnostics(c, ps, bot_id, Tail(cmds))

\* the lines the second loop of Phase 2 adds to stderr for one side
RECURSIVE move_diagnostics(_, _, _, _)
move_diagnostics(c, ps, bot_id, cmds) ==
    IF cmds = <<>> THEN {}
    ELSE IF Head(cmds).kind = "MOVE"
    THEN (IF ~owned_living(ps, Head(cmds).pac, bot_id)
          THEN {Diagnostic(bot_id, "Invalid pac", Head(cmds).pac)}
          ELSE IF bfs_path(c.grid, ps[Head(cmds).pac].position, Head(cmds).target) = <<>>
          THEN {Diagnostic(bot_id, "No path", Head(cmds).pac)}
          ELSE {})
         \cup move_diagnostics(c, ps, bot_id, Tail(cmds))
    ELSE move_diagnostics(c, ps, bot_id, Tail(cmds))

\* the lines of stderr after Phase 2, the only phase that writes to it; ps
\* are the pacs after Phases 0 and 1
RECURSIVE phase2_diagnostics(_, _, _, _)
phase2_side_diagnostics(c, ps, ps1, actions_by_bot, b) ==
    ability_diagnostics(c, ps, Sides[b], actions_by_bot[Sides[b]])
    \cup move_diagnostics(c, ps1, Sides[b], actions_by_bot[Sides[b]])
    \cup phase2_diagnostics(c, ps1, actions_by_bot, b + 1)

phase2_diagnostics(c, ps, actions_by_bot, b) ==
    IF b > Len(Sides) THEN {}
    ELSE phase2_side_diagnostics(c, ps,
             apply_abilities(c, ps, Sides[b], actions_by_bot[Sides[b]]),
             actions_by_bot, b)

\* the lines of the stderr that step returns and stores in the entry of the
\* turn; the entries of the model keep of it only that it is a step's
step_stderr(c, ps, actions_by_bot) ==
    phase2_diagnostics(c, tick_all(cleanup(ps)), actions_by_bot, 1)

----------------------------------------------------------------------------
(* step: Phase 3, movement *)

max_iterations == 10

\* step_moves of micro-step move_step (0 or 1), in the order of intentions
RECURSIVE step_moves(_, _, _, _)
step_moves(ps, intentions, move_step, k) ==
    IF k > Len(intentions) THEN <<>>
    ELSE LET intent == intentions[k]
             pac == ps[intent.pac_id]
             rest == step_moves(ps, intentions, move_step, k + 1)
         IN IF pac.dead THEN rest
            ELSE IF move_step = 1 /\ pac.speed <= 1 THEN rest
            ELSE IF move_step >= intent.steps THEN rest
            ELSE IF move_step + 1 < Len(intent.path)
            THEN <<[pac_id |-> intent.pac_id, pos |-> intent.path[move_step + 2]]>> \o rest
            ELSE rest

\* the pacs of step_moves that the same-cell detection blocks
same_cell_blocked(ps, moves) ==
    {moves[k].pac_id : k \in
        {k \in 1..Len(moves) :
            LET pac_list == {j \in 1..Len(moves) : moves[j].pos = moves[k].pos}
                owners == {ps[moves[j].pac_id].owner : j \in pac_list}
                types == {ps[moves[j].pac_id].type : j \in pac_list}
            IN /\ Cardinality(pac_list) > 1
               /\ Cardinality(owners) = 1 \/ Cardinality(types) = 1}}

\* self.pacs[pac_id].position = old_positions[pac_id] for the given pacs
roll_back(ps, ids, old_positions) ==
    [i \in DOMAIN ps |->
        IF i \in ids THEN [ps[i] EXCEPT !.position = old_positions[i]] ELSE ps[i]]

\* Mutation of crossing_inner: no crossing is detected.
crossing_inner_none(st, moves, old_positions, i, j, old_pos1) == st

\* crossing detection, inner loop over pac2 for a fixed pac1 = moves[i];
\* st carries the pacs, blocked_pacs and collisions_found
RECURSIVE crossing_inner(_, _, _, _, _, _)
crossing_inner(st, moves, old_positions, i, j, old_pos1) ==
    IF j > Len(moves) THEN st
    ELSE LET pac1_id == moves[i].pac_id
             pac2_id == moves[j].pac_id
             new_pos1 == moves[i].pos
             new_pos2 == moves[j].pos
         IN IF pac2_id <= pac1_id \/ pac2_id \in st.blocked
            THEN crossing_inner(st, moves, old_positions, i, j + 1, old_pos1)
            ELSE LET pac1 == st.pacs[pac1_id]
                     pac2 == st.pacs[pac2_id]
                     old_pos2 == pac2.position
                     st1 == IF old_pos1 = new_pos2 /\ old_pos2 = new_pos1
                            THEN IF pac1.owner = pac2.owner \/ pac1.type = pac2.type
                                 THEN [pacs |-> roll_back(st.pacs, {pac1_id, pac2_id}, old_positions),
                                       blocked |-> st.blocked \cup {pac1_id, pac2_id},
                                       found |-> TRUE]
                                 ELSE IF beats(pac1.type, pac2.type)
                                 THEN [pacs |-> roll_back(st.pacs, {pac2_id}, old_positions),
                                       blocked |-> st.blocked \cup {pac2_id},
                                       found |-> TRUE]
                                 ELSE IF beats(pac2.type, pac1.type)
                                 THEN [pacs |-> roll_back(st.pacs, {pac1_id}, old_positions),
                                       blocked |-> st.blocked \cup {pac1_id},
                                       found |-> TRUE]
                                 ELSE st
                            ELSE st
                 IN crossing_inner(st1, moves, old_positions, i, j + 1, old_pos1)

\* crossing detection, outer loop over pac1
RECURSIVE crossing_outer(_, _, _, _)
crossing_outer(st, moves, old_positions, i) ==
    IF i > Len(moves) THEN st
    ELSE IF moves[i].pac_id \in st.blocked
    THEN crossing_outer(st, moves, old_positions, i + 1)
    ELSE crossing_outer(
             crossing_inner(st, moves, old_positions, i, 1,
                            st.pacs[moves[i].pac_id].position),
             moves, old_positions, i + 1)

\* del step_moves[pac_id] for the blocked pacs
RECURSIVE remove_blocked(_, _)
remove_blocked(moves, blocked) ==
    IF moves = <<>> THEN <<>>
    ELSE IF Head(moves).pac_id \in blocked THEN remove_blocked(Tail(moves), blocked)
    ELSE <<Head(moves)>> \o remove_blocked(Tail(moves), blocked)

\* the "for iteration in range(max_iterations)" loop: the pacs and the
\* step_moves that are left when it ends
RECURSIVE resolve_collisions(_, _, _, _)
\* the end of one iteration: st is the outcome of both detections
resolve_next(st, moves, old_positions, iteration) ==
    IF ~st.found
    THEN [pacs |-> st.pacs, moves |-> remove_blocked(moves, st.blocked), converged |-> TRUE]
    ELSE resolve_collisions(st.pacs, remove_blocked(moves, st.blocked),
                            old_positions, iteration + 1)

\* the same-cell detection has blocked blocked1; then the crossing detection
resolve_crossings(ps, moves, old_positions, iteration, blocked1) ==
    resolve_next(crossing_outer([pacs |-> roll_back(ps, blocked1, old_positions),
                                 blocked |-> blocked1,
                                 found |-> blocked1 # {}],
                                moves, old_positions, 1),
                 moves, old_positions, iteration)

resolve_collisions(ps, moves, old_positions, iteration) ==
    IF iteration >= max_iterations THEN [pacs |-> ps, moves |-> moves, converged |-> FALSE]
    ELSE resolve_crossings(ps, moves, old_positions, iteration,
                           same_cell_blocked(ps, moves))

\* "Appliquer les mouvements validés"
RECURSIVE apply_moves(_, _)
apply_moves(ps, moves) ==
    IF moves = <<>> THEN ps
    ELSE apply_moves([ps EXCEPT ![Head(moves).pac_id].position = Head(moves).pos],
                     Tail(moves))

\* one pass of "for move_step in range(2)"; an empty step_moves ends the loop
apply_resolved(r) == [pacs |-> apply_moves(r.pacs, r.moves), stop |-> FALSE]

micro_step_moves(ps, moves, old_positions) ==
    IF moves = <<>> THEN [pacs |-> ps, stop |-> TRUE]
    ELSE apply_resolved(resolve_collisions(ps, moves, old_positions, 0))

micro_step(ps, intentions, old_positions, move_step) ==
    micro_step_moves(ps, step_moves(ps, intentions, move_step, 1), old_positions)

\* the second pass of the loop, unless the first one ended it
phase3_second(r0, intentions, old_positions) ==
    IF r0.stop THEN r0.pacs
    ELSE micro_step(r0.pacs, intentions, old_positions, 1).pacs

phase3_from(ps, intentions, old_positions) ==
    phase3_second(micro_step(ps, intentions, old_positions, 0), intentions, old_positions)

phase3(ps, intentions) ==
    phase3_from(ps, intentions, [i \in DOMAIN ps |-> ps[i].position])

----------------------------------------------------------------------------
(* step: Phase 4, combat, and Phase 5, consumption *)

\* the pac ids in the order of self.pacs (insertion order: ascending ids)
RECURSIVE IdSeq(_)
IdSeq(S) ==
    IF S = {} THEN <<>>
    ELSE LET m == CHOOSE a \in S : \A b \in S : a <= b
         IN <<m>> \o IdSeq(S \ {m})

\* inner loop over pac2 for pac1 = ps[ids[i]]; the break leaves the loop
RECURSIVE combat_inner(_, _, _, _)
combat_inner(ps, ids, i, j) ==
    IF j > Len(ids) THEN ps
    ELSE LET pac1 == ps[ids[i]]
             pac2 == ps[ids[j]]
         IN IF pac2.dead \/ pac1.id >= pac2.id
            THEN combat_inner(ps, ids, i, j + 1)
            ELSE IF pac1.owner = pac2.owner
            THEN combat_inner(ps, ids, i, j + 1)
            ELSE IF pac1.position = pac2.position
            THEN IF beats(pac1.type, pac2.type)
                 THEN combat_inner([ps EXCEPT ![pac2.id].dead = TRUE], ids, i, j + 1)
                 ELSE IF beats(pac2.type, pac1.type)
                 THEN [ps EXCEPT ![pac1.id].dead = TRUE]
                 ELSE combat_inner(ps, ids, i, j + 1)
            ELSE combat_inner(ps, ids, i, j + 1)

RECURSIVE combat_outer(_, _, _)
combat_outer(ps, ids, i) ==
    IF i > Len(ids) THEN ps
    ELSE IF ps[ids[i]].dead THEN combat_outer(ps, ids, i + 1)
    ELSE combat_outer(combat_inner(ps, ids, i, 1), ids, i + 1)

phase4(ps) == combat_outer(ps, IdSeq(DOMAIN ps), 1)

\* Mutation of eat: a cherry is credited like a pellet.
eat_cherry_as_pellet(b, pac) ==
    LET pos == pac.position
        b1 == IF pos \in b.pellets
              THEN [b EXCEPT !.pellets = @ \ {pos}, !.scores[pac.owner] = @ + 1]
              ELSE b
    IN IF pos \in b1.cherries
       THEN [b1 EXCEPT !.cherries = @ \ {pos}, !.scores[pac.owner] = @ + 1]
       ELSE b1

\* what one living pac eats: b carries pellets, cherries and scores
eat(b, pac) ==
    LET pos == pac.position
        b1 == IF pos \in b.pellets
              THEN [b EXCEPT !.pellets = @ \ {pos}, !.scores[pac.owner] = @ + 1]
              ELSE b
    IN IF pos \in b1.cherries
       THEN [b1 EXCEPT !.cherries = @ \ {pos}, !.scores[pac.owner] = @ + cherry_score]
       ELSE b1

RECURSIVE phase5(_, _, _, _)
phase5(ps, ids, i, b) ==
    IF i > Len(ids) THEN b
    ELSE IF ps[ids[i]].dead THEN phase5(ps, ids, i + 1, b)
    ELSE phase5(ps, ids, i + 1, eat(b, ps[ids[i]]))

----------------------------------------------------------------------------
(* The operations of the referee as actions *)

(* make_bot_input *)

\* Mutation of get_visible_pacs: the dead pacs are listed too.
get_visible_pacs_with_dead(ps) == IdSeq(DOMAIN ps)

\* _get_visible_pacs: the living pacs, in the order of self.pacs
get_visible_pacs(ps) ==
    LET living(i) == ~ps[i].dead
    IN SelectSeq(IdSeq(DOMAIN ps), living)

\* The line of a pac; a line is the sequence of the numbers written on it.
pac_line(pac, bot_id) ==
    <<pac.id, IF pac.owner = bot_id THEN 1 ELSE 0, pac.position[1], pac.position[2],
      pac.type, pac.ability_duration, pac.ability_cooldown>>

\* the lines "x y value" of a set of cells, in the order of iteration of the
\* set, which the model takes to be the order by row and column
item_lines(cells, value) ==
    LET sorted == SortCells(cells, FALSE)
    IN [k \in 1..Len(sorted) |-> <<sorted[k][1], sorted[k][2], value>>]

\* the lines of the text make_bot_input returns
make_bot_input(ps, pel, ch, sc, bot_id) ==
    LET opp_id == IF bot_id = "player" THEN "opponent" ELSE "player"
        visible_pacs == get_visible_pacs(ps)
    IN <<<<sc[bot_id], sc[opp_id]>>>>
       \o <<<<Len(visible_pacs)>>>>
       \o [k \in 1..Len(visible_pacs) |-> pac_line(ps[visible_pacs[k]], bot_id)]
       \o <<<<Cardinality(pel) + Cardinality(ch)>>>>
       \o item_lines(pel, 1)
       \o item_lines(ch, cherry_score)

\* PacmanReferee.make_bot_input, of the referee with one pac a side: pos is
\* self.pacs, the position of the pac of each side; owner_map is {0: 'player',
\* 1: 'opponent'}
make_bot_input_v1(pos, pel, sc, bot_id) ==
    <<<<sc["player"], sc["opponent"]>>>>
    \o <<<<2>>>>
    \o <<<<0, IF "player" = bot_id THEN 1 ELSE 0,
           pos["player"][1], pos["player"][2], 0, 0, 0>>>>
    \o <<<<1, IF "opponent" = bot_id THEN 1 ELSE 0,
           pos["opponent"][1], pos["opponent"][2], 0, 0, 0>>>>
    \o <<<<Cardinality(pel)>>>>
    \o item_lines(pel, 1)

\* make_per_turn_input of run_referee.py, for the same referee
make_per_turn_input(pos, pel, sc, bot_id) ==
    <<<<sc["player"], sc["opponent"]>>>>
    \o <<<<2>>>>
    \o <<<<0, IF "player" = bot_id THEN 1 ELSE 0,
           pos["player"][1], pos["player"][2], 0, 0, 0>>>>
    \o <<<<1, IF "opponent" = bot_id THEN 1 ELSE 0,
           pos["opponent"][1], pos["opponent"][2], 0, 0, 0>>>>
    \o <<<<Cardinality(pel)>>>>
    \o item_lines(pel, 1)

----------------------------------------------------------------------------
(* The turns of the matches *)

\* The commands a side may put on its line: for each pac of its own in the
\* roster, a MOVE to a floor cell, SPEED, or SWITCH to a type.
\* The types the bots ask for in SWITCH commands.
SwitchTypes == {SCISSORS}

\* The commands a side issues: for its own pacs, MOVE to a floor cell, and
\* the abilities the configuration makes available.
Commands(c, ps, side) ==
    LET own == {i \in DOMAIN ps : ps[i].owner = side}
    IN {MoveCmd(i, t) : i \in own, t \in c.grid.floor}
       \cup (IF c.speed_ability_available THEN {SpeedCmd(i) : i \in own} ELSE {})
       \cup (IF c.switch_ability_available
             THEN {SwitchCmd(i, ty) : i \in own, ty \in SwitchTypes} ELSE {})

SeqsUpTo(U, n) == UNION {[1..k -> U] : k \in 0..n}

\* actions_by_bot: one command list per side, of MaxCmds commands at most
TurnInputs(c, ps) ==
    {[player |-> p, opponent |-> o] :
        p \in SeqsUpTo(Commands(c, ps, "player"), MaxCmds),
        o \in SeqsUpTo(Commands(c, ps, "opponent"), MaxCmds)}

steps_recorded == Cardinality({k \in 1..Len(history) : history[k].stderr = "step"})

timeouts_recorded == Cardinality({k \in 1..Len(history) :
                        history[k].stderr \in {"timeout player", "timeout opponent"}})

\* Phase 5, turn += 1 and get_state() on the pacs left by the combat
step_finish(ps4, b5, bf, t) ==
    [pacs |-> ps4, pellets |-> b5.pellets, cherries |-> b5.cherries,
     scores |-> is_finished_scores(bf, t + 1, ps4, b5.pellets, b5.cherries, b5.scores),
     awarded |-> is_finished_awards(bf, t + 1, ps4)]

step_consume(ps4, pel, ch, sc, bf, t) ==
    step_finish(ps4,
                phase5(ps4, IdSeq(DOMAIN ps4), 1,
                       [pellets |-> pel, cherries |-> ch, scores |-> sc]),
                bf, t)

step_move_fight(r2, pel, ch, sc, bf, t) ==
    step_consume(phase4(phase3(r2.pacs, r2.intentions)), pel, ch, sc, bf, t)

\* what step(actions_by_bot) leaves: Phases 0 to 5, then get_state()
step_result(c, ps, pel, ch, sc, bf, t, actions_by_bot) ==
    step_move_fight(phase2(c, tick_all(cleanup(ps)), actions_by_bot, 1, <<>>),
                    pel, ch, sc, bf, t)

\* Mutation of step: the entry is appended with the turn the step began in.
step_stale_turn(actions_by_bot) ==
    \E r \in {step_result(cfg, pacs, pellets, cherries, scores, bot_failed, turn,
                          actions_by_bot)} :
       /\ pacs' = r.pacs
       /\ pellets' = r.pellets
       /\ cherries' = r.cherries
       /\ turn' = turn + 1
       /\ scores' = r.scores
       /\ awards' = IF r.awarded THEN awards + 1 ELSE awards
       /\ history' = Append(history, HistoryEntry(turn, "step"))
       /\ UNCHANGED <<cfg, bot_failed, runnerVars, hostVars>>

step(actions_by_bot) ==
    \E r \in {step_result(cfg, pacs, pellets, cherries, scores, bot_failed, turn,
                          actions_by_bot)} :
       /\ pacs' = r.pacs
       /\ pellets' = r.pellets
       /\ cherries' = r.cherries
       /\ turn' = turn + 1
       /\ scores' = r.scores
       /\ awards' = IF r.awarded THEN awards + 1 ELSE awards
       /\ history' = Append(history, HistoryEntry(turn + 1, "step"))
       /\ UNCHANGED <<cfg, bot_failed, runnerVars, hostVars>>

Step ==
    /\ steps_recorded < MaxSteps
    /\ \E a \in TurnInputs(cfg, pacs) : step(a)
    /\ UNCHANGED svcVars

\* The init_params of the matches that follow an ability through its cooldown.
AbilityConfigs ==
    { [grid |-> GridC, pacs_per_player |-> 1, num_cherries |-> 0,
       speed_ability_available |-> TRUE, switch_ability_available |-> TRUE] }

\* actions_by_bot in those matches: the player uses its abilities and moves
\* between its spawn cell and the cell two steps away, the opponent uses SPEED
AbilityInputs(c, ps) ==
    {[player |-> p, opponent |-> o] :
        p \in SeqsUpTo({SpeedCmd(1), SwitchCmd(1, SCISSORS),
                        MoveCmd(1, <<2, 3>>), MoveCmd(1, <<1, 2>>)}, AbilityCmds),
        o \in {<<>>, <<SpeedCmd(2)>>}}

\* step does not look at max_turns, and the abilities do not either: these
\* matches are stepped AbilitySteps times
AbilityStep ==
    /\ steps_recorded < AbilitySteps
    /\ \E a \in AbilityInputs(cfg, pacs) : step(a)
    /\ UNCHANGED svcVars

\* a call of is_finished() by the caller of the referee
is_finished_call ==
    /\ is_finished_awards(bot_failed, turn, pacs) => awards < MaxAwards
    /\ scores' = is_finished_scores(bot_failed, turn, pacs, pellets, cherries, scores)
    /\ awards' = IF is_finished_awards(bot_failed, turn, pacs) THEN awards + 1 ELSE awards
    /\ UNCHANGED <<cfg, pacs, pellets, cherries, turn, bot_failed, history, runnerVars, hostVars, svcVars>>

\* a call of get_state() by the caller of the referee: it calls is_finished()
get_state_call ==
    /\ is_finished_awards(bot_failed, turn, pacs) => awards < MaxAwards
    /\ scores' = is_finished_scores(bot_failed, turn, pacs, pellets, cherries, scores)
    /\ awards' = IF is_finished_awards(bot_failed, turn, pacs) THEN awards + 1 ELSE awards
    /\ UNCHANGED <<cfg, pacs, pellets, cherries, turn, bot_failed, history, runnerVars, hostVars, svcVars>>

\* Mutation of on_bot_timeout: turn is not set to max_turns.
on_bot_timeout_no_fast_forward(bot_id) ==
    /\ timeouts_recorded < MaxTimeouts
    /\ bot_failed' = bot_id
    /\ scores' = [scores EXCEPT ![bot_id] = 0]
    /\ history' = Append(history,
                     HistoryEntry(turn, IF bot_id = "player" THEN "timeout player"
                                        ELSE "timeout opponent"))
    /\ UNCHANGED <<cfg, pacs, pellets, cherries, turn, awards, runnerVars, hostVars, svcVars>>

\* Mutation of on_bot_timeout: the score is zeroed and the entry appended, but
\* neither bot_failed nor turn is set.
on_bot_timeout_score_only(bot_id) ==
    /\ timeouts_recorded < MaxTimeouts
    /\ scores' = [scores EXCEPT ![bot_id] = 0]
    /\ history' = Append(history,
                     HistoryEntry(turn, IF bot_id = "player" THEN "timeout player"
                                        ELSE "timeout opponent"))
    /\ UNCHANGED <<cfg, pacs, pellets, cherries, turn, bot_failed, awards, runnerVars, hostVars, svcVars>>

on_bot_timeout(bot_id) ==
    /\ timeouts_recorded < MaxTimeouts
    /\ bot_failed' = bot_id
    /\ scores' = [scores EXCEPT ![bot_id] = 0]
    /\ turn' = MaxTurns
    /\ history' = Append(history,
                     HistoryEntry(MaxTurns, IF bot_id = "player" THEN "timeout player"
                                            ELSE "timeout opponent"))
    /\ UNCHANGED <<cfg, pacs, pellets, cherries, awards, runnerVars, hostVars, svcVars>>

BotTimeout == \E bot_id \in SideSet : on_bot_timeout(bot_id)

----------------------------------------------------------------------------
(* The bot runner: one invocation at a time, on one of its four paths *)

Paths == {"subprocess", "docker_run", "docker_cp", "thread"}

NoResult == [err |-> "", rc |-> 0]

\* return '', 'timeout', -1
TimeoutResult == [err |-> "timeout", rc |-> -1]

NoExec == [state |-> "none", work |-> 0]

\* a bot execution that needs w ticks to write its answer and end
Running(w) == [state |-> "running", work |-> w]

runner_init ==
    /\ run_path = "none"
    /\ run_pc = "idle"
    /\ elapsed = 0
    /\ bot_exec = NoExec
    /\ client = "none"
    /\ result = NoResult
    /\ runs = 0
    /\ leaked = 0

\* one tick of work of a running execution
work_tick(e) ==
    IF e.state # "running" THEN e
    ELSE IF e.work <= 1 THEN [state |-> "exited", work |-> 0]
    ELSE [e EXCEPT !.work = @ - 1]

\* subprocess.Popen(['python3', '-c', bot_code]) followed by communicate(timeout)
run_subprocess_start ==
    /\ run_pc = "idle"
    /\ \E w \in 1..MaxWork : bot_exec' = Running(w)
    /\ run_path' = "subprocess"
    /\ run_pc' = "waiting"
    /\ elapsed' = 0
    /\ client' = "none"
    /\ result' = NoResult
    /\ UNCHANGED <<runs, leaked, engineVars, hostVars, svcVars>>

\* run_bot_in_docker with mount_shows_bot true: Popen(docker run ...)
run_bot_in_docker_start ==
    /\ run_pc = "idle"
    /\ \E w \in 1..MaxWork : bot_exec' = Running(w)
    /\ run_path' = "docker_run"
    /\ run_pc' = "waiting"
    /\ elapsed' = 0
    /\ client' = "running"
    /\ result' = NoResult
    /\ UNCHANGED <<runs, leaked, engineVars, hostVars, svcVars>>

\* _docker_cp_fallback: docker create, docker cp, Popen(docker start -a -i cid);
\* reached when the mount check fails, or when docker run ended at once because
\* /bot/bot.py could not be opened.
docker_cp_fallback_start ==
    /\ \/ run_pc = "idle"
       \/ run_pc = "waiting" /\ run_path = "docker_run" /\ elapsed = 0
    /\ \E w \in 1..MaxWork : bot_exec' = Running(w)
    /\ run_path' = "docker_cp"
    /\ run_pc' = "waiting"
    /\ elapsed' = 0
    /\ client' = "running"
    /\ result' = NoResult
    /\ UNCHANGED <<runs, leaked, engineVars, hostVars, svcVars>>

\* _exec_code_with_io: th = threading.Thread(target=target); th.start(); th.join(timeout)
exec_code_with_io_start ==
    /\ run_pc = "idle"
    /\ \E w \in 1..MaxWork : bot_exec' = Running(w)
    /\ run_path' = "thread"
    /\ run_pc' = "waiting"
    /\ elapsed' = 0
    /\ client' = "none"
    /\ result' = NoResult
    /\ UNCHANGED <<runs, leaked, engineVars, hostVars, svcVars>>

\* time passes while the runner waits in communicate() or join()
Tick ==
    /\ run_pc = "waiting"
    /\ elapsed < TimeoutTicks
    /\ bot_exec.state = "running"
    /\ elapsed' = elapsed + 1
    /\ bot_exec' = work_tick(bot_exec)
    /\ client' = IF client = "running" /\ work_tick(bot_exec).state = "exited"
                 THEN "exited" ELSE client
    /\ UNCHANGED <<run_path, run_pc, result, runs, leaked, engineVars, hostVars, svcVars>>

\* communicate() or join() returns because the bot has ended: return out, err, rc
bot_answers ==
    /\ run_pc = "waiting"
    /\ bot_exec.state = "exited"
    /\ run_pc' = "returned"
    /\ result' = [err |-> "", rc |-> 0]
    /\ UNCHANGED <<run_path, elapsed, bot_exec, client, runs, leaked, engineVars, hostVars, svcVars>>

\* the deadline has passed and the bot has not ended
Expired == run_pc = "waiting" /\ elapsed >= TimeoutTicks /\ bot_exec.state = "running"

\* _run_subprocess, except subprocess.TimeoutExpired: proc.kill()
run_subprocess_timeout ==
    /\ Expired
    /\ run_path = "subprocess"
    /\ bot_exec' = [bot_exec EXCEPT !.state = "killed"]
    /\ run_pc' = "returned"
    /\ result' = TimeoutResult
    /\ UNCHANGED <<run_path, elapsed, client, runs, leaked, engineVars, hostVars, svcVars>>

\* run_bot_in_docker, except subprocess.TimeoutExpired: proc.kill() kills the
\* docker run client; nothing stops the container, which keeps running unless
\* the bot ends by itself when its stdin closes.
run_bot_in_docker_timeout ==
    /\ Expired
    /\ run_path = "docker_run"
    /\ client' = "killed"
    /\ \E st \in {"running", "exited"} : bot_exec' = [bot_exec EXCEPT !.state = st]
    /\ run_pc' = "returned"
    /\ result' = TimeoutResult
    /\ UNCHANGED <<run_path, elapsed, runs, leaked, engineVars, hostVars, svcVars>>

\* _docker_cp_fallback, except subprocess.TimeoutExpired: start_proc.kill(),
\* then the finally clause: docker rm -f cid
docker_cp_fallback_timeout ==
    /\ Expired
    /\ run_path = "docker_cp"
    /\ client' = "killed"
    /\ bot_exec' = [bot_exec EXCEPT !.state = "killed"]
    /\ run_pc' = "returned"
    /\ result' = TimeoutResult
    /\ UNCHANGED <<run_path, elapsed, runs, leaked, engineVars, hostVars, svcVars>>

\* _exec_code_with_io, th.is_alive() after the join: return '', 'timeout', -1
exec_code_with_io_timeout ==
    /\ Expired
    /\ run_path = "thread"
    /\ run_pc' = "returned"
    /\ result' = TimeoutResult
    /\ UNCHANGED <<run_path, elapsed, bot_exec, client, runs, leaked, engineVars, hostVars, svcVars>>

\* an execution the runner left running goes on after the runner has returned
bot_lingers ==
    /\ run_pc = "returned"
    /\ bot_exec.state = "running"
    /\ bot_exec' = work_tick(bot_exec)
    /\ UNCHANGED <<run_path, run_pc, elapsed, client, result, runs, leaked, engineVars, hostVars, svcVars>>

\* the caller goes on to its next invocation of the runner
next_invocation ==
    /\ run_pc = "returned"
    /\ runs < MaxRuns
    /\ runs' = runs + 1
    /\ leaked' = IF bot_exec.state = "running" THEN leaked + 1 ELSE leaked
    /\ run_path' = "none"
    /\ run_pc' = "idle"
    /\ elapsed' = 0
    /\ bot_exec' = NoExec
    /\ client' = "none"
    /\ result' = NoResult
    /\ UNCHANGED <<engineVars, hostVars, svcVars>>

----------------------------------------------------------------------------
(* The codec.  A bot's output is a sequence of lines; a line is the       *)
(* sequence of its sub-commands (the parts between '|'), and a            *)
(* sub-command is its first word and the words after it.                  *)

Sub(kw, args) == [kw |-> kw, args |-> args]

\* int(w) succeeds
IsInt(w) == w \in {"0", "1", "2", "3", "7", "02", "-1"}

\* int(w)
int(w) ==
    CASE w = "0" -> 0
      [] w = "1" -> 1
      [] w = "2" -> 2
      [] w = "3" -> 3
      [] w = "7" -> 7
      [] w = "02" -> 2
      [] w = "-1" -> -1

\* f"{n}": the decimal writing of an integer
str(n) ==
    CASE n = 0 -> "0"
      [] n = 1 -> "1"
      [] n = 2 -> "2"
      [] n = 3 -> "3"
      [] n = 7 -> "7"
      [] n = -1 -> "-1"

\* s.upper()
upper(s) ==
    CASE s = "move" -> "MOVE"
      [] s = "rock" -> "ROCK"
      [] OTHER -> s

\* PacType.to_string
to_string(t) ==
    IF t = ROCK THEN "ROCK"
    ELSE IF t = PAPER THEN "PAPER"
    ELSE IF t = SCISSORS THEN "SCISSORS"
    ELSE "NEUTRAL"

\* Mutation of from_string: the name of the type is not looked at.
from_string_rock(s) == ROCK

\* PacType.from_string
from_string(s) ==
    IF upper(s) = "ROCK" THEN ROCK
    ELSE IF upper(s) = "PAPER" THEN PAPER
    ELSE IF upper(s) = "SCISSORS" THEN SCISSORS
    ELSE IF upper(s) = "NEUTRAL" THEN NEUTRAL
    ELSE NEUTRAL

\* the first line that is not blank, <<>> when there is none
first_line(out) ==
    IF \A k \in 1..Len(out) : out[k] = <<>> THEN <<>>
    ELSE out[CHOOSE k \in 1..Len(out) :
                out[k] # <<>> /\ \A j \in 1..(k - 1) : out[j] = <<>>]

\* what one sub-command adds to `normalized`: the sub-command rewritten,
\* or nothing
normalize_command(sub) ==
    LET cmd_type == upper(sub.kw)
        parts == sub.args
    IN IF cmd_type = "MOVE" /\ Len(parts) >= 3
       THEN IF IsInt(parts[1]) /\ IsInt(parts[2]) /\ IsInt(parts[3])
            THEN <<Sub("MOVE", <<str(int(parts[1])), str(int(parts[2])), str(int(parts[3]))>>)>>
            ELSE <<>>
       ELSE IF cmd_type = "SPEED" /\ Len(parts) >= 1
       THEN IF IsInt(parts[1]) THEN <<Sub("SPEED", <<str(int(parts[1]))>>)>> ELSE <<>>
       ELSE IF cmd_type = "SWITCH" /\ Len(parts) >= 2
       THEN IF IsInt(parts[1])
            THEN <<Sub("SWITCH", <<str(int(parts[1])), str(from_string(parts[2]))>>)>>
            ELSE <<>>
       ELSE <<>>

\* step reads a sub-command of the normalized action: its kind and its
\* integers
decode_command(sub) ==
    LET cmd_type == upper(sub.kw)
        parts == sub.args
    IN IF cmd_type = "SPEED" THEN SpeedCmd(int(parts[1]))
       ELSE IF cmd_type = "SWITCH" THEN SwitchCmd(int(parts[1]), int(parts[2]))
       ELSE MoveCmd(int(parts[1]), <<int(parts[2]), int(parts[3])>>)

\* a sub-command of the bot's line as step reads it, if it is kept
parse_command(sub) ==
    IF normalize_command(sub) = <<>> THEN <<>>
    ELSE <<decode_command(normalize_command(sub)[1])>>

RECURSIVE parse_commands(_)
parse_commands(line) ==
    IF line = <<>> THEN <<>>
    ELSE parse_command(Head(line)) \o parse_commands(Tail(line))

\* the commands of the normalized action string
parse_bot_output(out) == parse_commands(first_line(out))

\* ACTION_RE_V1 matches the line: one MOVE with two or three integers
ACTION_RE_V1(line) ==
    /\ Len(line) = 1
    /\ upper(line[1].kw) = "MOVE"
    /\ Len(line[1].args) \in {2, 3}
    /\ \A k \in 1..Len(line[1].args) : IsInt(line[1].args[k])

\* ACTION_RE_V2 matches the line: every sub-command starts with MOVE, SPEED
\* or SWITCH and has something after it
ACTION_RE_V2(line) ==
    /\ Len(line) >= 1
    /\ \A k \in 1..Len(line) :
          /\ upper(line[k].kw) \in {"MOVE", "SPEED", "SWITCH"}
          /\ Len(line[k].args) >= 1

\* the error message validate_action_format returns, "" for none
validate_action_format(raw_output, allow_multi_commands) ==
    IF first_line(raw_output) = <<>> THEN "no output from bot"
    ELSE IF allow_multi_commands
    THEN IF ACTION_RE_V2(first_line(raw_output)) \/ ACTION_RE_V1(first_line(raw_output))
         THEN "" ELSE "invalid action format"
    ELSE IF ACTION_RE_V1(first_line(raw_output)) THEN "" ELSE "invalid action format"

\* The outputs the bots write.
Outputs ==
    { <<>>,
      << <<Sub("MOVE", <<"1", "2", "2">>)>> >>,
      << <<>>, <<Sub("move", <<"1", "2", "3">>)>> >>,
      << <<Sub("SPEED", <<"1">>)>>, <<Sub("MOVE", <<"1", "2", "2">>)>> >>,
      << <<Sub("MOVE", <<"1", "2", "2">>), Sub("FOO", <<>>)>> >>,
      << <<Sub("MOVE", <<"1", "x", "2">>), Sub("SPEED", <<"1">>)>> >>,
      << <<Sub("MOVE", <<"1">>)>> >>,
      << <<Sub("SWITCH", <<"1", "FOO">>)>> >> }

----------------------------------------------------------------------------
(* _run_bot_for_role and BotRunner.run: one call for one side's bot *)

Modes == {"auto", "docker", "subprocess"}

\* BOT_DOCKER_AUTO_THRESHOLD_MS and BOT_DOCKER_STARTUP_MS, at their defaults
docker_startup_threshold_ms == 100
docker_min_startup_ms == 1000

\* The values of timeout_ms of the calls.
TimeoutsMs == {50, 200, 1500}

docker_timeout_ms(timeout_ms) ==
    IF timeout_ms >= docker_min_startup_ms THEN timeout_ms ELSE docker_min_startup_ms

\* Mutation of retry_timeout_ms: the retry keeps the deadline of the first try.
retry_timeout_ms_same(timeout_ms) == docker_timeout_ms(timeout_ms)

retry_timeout_ms(timeout_ms) ==
    Max2(docker_min_startup_ms * 2, docker_timeout_ms(timeout_ms) * 2)

\* What one execution of the bot's code can come to.
\*   ok              the code ran and exited with status 0
\*   own_failure     the code ran and ended by itself with a non-zero status
\*                   (in the thread executor: with an exception)
\*   own_file_error  the same, and its stderr or stdout has 'no such file
\*                   or directory' or 'permission denied' in it
\*   cannot_open     python3 could not open /bot/bot.py: the code did not run
\*   timeout         the deadline passed
\*   unavailable     docker could not be run
\*   create_failed   docker create or docker cp failed
\*   spawn_failed    Popen(['python3', ...]) raised
OwnFailures == {"own_failure", "own_file_error"}

BotRan == {"ok", "timeout"} \cup OwnFailures

\* (stderr, rc) of an outcome
outcome_err(o) ==
    CASE o = "ok" -> ""
      [] o = "own_failure" -> "bot"
      [] o = "own_file_error" -> "bot: no such file or directory"
      [] o = "cannot_open" -> "can't open file '/bot/bot.py'"
      [] o = "timeout" -> "timeout"
      [] o = "unavailable" -> "docker-not-available"
      [] OTHER -> "error"

outcome_rc(o) ==
    CASE o = "ok" -> 0
      [] o = "own_failure" -> 1
      [] o = "own_file_error" -> 1
      [] o = "cannot_open" -> 2
      [] OTHER -> -1

\* the options the execution is started with
Limits(how) ==
    CASE how = "docker_run" ->
             [network_none |-> TRUE, memory |-> TRUE, cpus |-> TRUE,
              pids_limit |-> TRUE, read_only |-> TRUE, tmpfs |-> TRUE]
      [] how = "docker_cp" ->
             [network_none |-> TRUE, memory |-> TRUE, cpus |-> TRUE,
              pids_limit |-> TRUE, read_only |-> FALSE, tmpfs |-> TRUE]
      [] OTHER ->
             [network_none |-> FALSE, memory |-> FALSE, cpus |-> FALSE,
              pids_limit |-> FALSE, read_only |-> FALSE, tmpfs |-> FALSE]

Exec(how, deadline, o) ==
    [how |-> how, deadline |-> deadline, outcome |-> o, limits |-> Limits(how)]

Attempt(strategy, deadline, o) ==
    [strategy |-> strategy, deadline |-> deadline,
     err |-> outcome_err(o), rc |-> outcome_rc(o)]

NoArgs == [role |-> "player", mode |-> "auto", timeout_ms |-> 50]

NoRet == [action |-> <<>>, stay |-> FALSE, stdout |-> <<>>, rc |-> 0, run_rc |-> 0,
          runner |-> "none", fmt_err |-> "", timeout_called |-> FALSE]

host_init ==
    /\ call_pc = "idle"
    /\ call_args = NoArgs
    /\ parsed_store = [s \in SideSet |-> FALSE]
    /\ stage = "none"
    /\ attempts = <<>>
    /\ execs = <<>>
    /\ call_ret = NoRet

\* _run_bot_for_role, up to the choice between the parsed executor and the
\* runner: `parses` is whether parse_bot_code accepts the bot's source
run_bot_for_role ==
    /\ call_pc = "idle"
    /\ \E role \in SideSet, mode \in Modes, t \in TimeoutsMs, parses \in BOOLEAN :
          /\ bot_failed # "none" => role = "opponent"
          /\ call_args' = [role |-> role, mode |-> mode, timeout_ms |-> t]
          /\ call_pc' = IF parsed_store[role] THEN "parsed_turn"
                        ELSE IF parses THEN "parsed_init"
                        ELSE "runner"
    /\ stage' = "none"
    /\ attempts' = <<>>
    /\ execs' = <<>>
    /\ call_ret' = NoRet
    /\ UNCHANGED <<parsed_store, engineVars, runnerVars, svcVars, libVars, matchVars>>

\* ref.on_bot_timeout(role, ref.turn, reason) as called by _run_bot_for_role:
\* what it does to the referee
ref_on_bot_timeout(role) ==
    /\ bot_failed' = role
    /\ scores' = [scores EXCEPT ![role] = 0]
    /\ turn' = MaxTurns
    /\ history' = Append(history,
                     HistoryEntry(MaxTurns, IF role = "player" THEN "timeout player"
                                            ELSE "timeout opponent"))
    /\ UNCHANGED <<cfg, pacs, pellets, cherries, awards>>

\* the return of _run_bot_for_role on (out, rc) of the executor or runner:
\* rc == -1 and a format error both call ref.on_bot_timeout and return 'STAY'
role_returns(out, rc, runner_used) ==
    LET role == call_args.role
        fmt_err == IF rc = -1 THEN "" ELSE validate_action_format(out, TRUE)
        fatal == rc = -1 \/ fmt_err # ""
    IN /\ call_pc' = "returned"
       /\ call_ret' = [action |-> IF fatal THEN <<>> ELSE parse_bot_output(out),
                       stay |-> fatal,
                       stdout |-> out,
                       rc |-> IF fatal THEN -1 ELSE rc,
                       run_rc |-> rc,
                       runner |-> runner_used,
                       fmt_err |-> fmt_err,
                       timeout_called |-> fatal]
       /\ IF fatal THEN ref_on_bot_timeout(role) ELSE UNCHANGED engineVars

\* run_parsed_init, and the choice that follows it
parsed_init ==
    /\ call_pc = "parsed_init"
    /\ \E o \in {"ok", "own_failure", "timeout"} :
          /\ execs' = Append(execs, Exec("parsed_init", Max2(2000, call_args.timeout_ms), o))
          /\ parsed_store' = IF o = "ok"
                             THEN [parsed_store EXCEPT ![call_args.role] = TRUE]
                             ELSE parsed_store
          /\ call_pc' = IF o = "ok" THEN "parsed_turn" ELSE "runner"
    /\ UNCHANGED <<call_args, stage, attempts, call_ret, engineVars, runnerVars, svcVars, libVars, matchVars>>

\* run_parsed_turn, and the return of _run_bot_for_role on its result
parsed_turn ==
    /\ call_pc = "parsed_turn"
    /\ \E o \in {"ok", "own_failure", "timeout"}, out \in Outputs :
          /\ o # "ok" => out = <<>>
          /\ execs' = Append(execs, Exec("parsed_turn", Max2(2000, call_args.timeout_ms), o))
          /\ role_returns(out, IF o = "ok" THEN 0 ELSE -1, "parsed")
    /\ UNCHANGED <<call_args, parsed_store, stage, attempts, runnerVars, svcVars, libVars, matchVars>>

\* BotRunner.run reaches _run_subprocess: as the strategy selected
\* ('subprocess') or after two failed container tries ('subprocess_fallback')
run_subprocess(used) ==
    /\ IF used = "subprocess"
       THEN /\ call_pc = "runner"
            /\ \/ call_args.mode = "subprocess"
               \/ /\ call_args.mode = "auto"
                  /\ call_args.timeout_ms <= docker_startup_threshold_ms
       ELSE call_pc = "fallback"
    /\ \E o \in {"ok", "own_failure", "timeout", "spawn_failed"}, out \in Outputs :
          /\ o # "ok" => out = <<>>
          /\ attempts' = Append(attempts, Attempt("subprocess", call_args.timeout_ms, o))
          /\ execs' = IF o \in BotRan
                      THEN Append(execs, Exec("subprocess", call_args.timeout_ms, o))
                      ELSE execs
          /\ role_returns(out, outcome_rc(o), used)
    /\ UNCHANGED <<call_args, parsed_store, stage, runnerVars, svcVars, libVars, matchVars>>

\* the deadline of the _run_docker call of a stage
stage_deadline(stg) ==
    IF stg = "retry" THEN retry_timeout_ms(call_args.timeout_ms)
    ELSE docker_timeout_ms(call_args.timeout_ms)

\* what BotRunner.run does with the (out, err, rc) of a _run_docker call
docker_returns(stg, o, out) ==
    /\ attempts' = Append(attempts, Attempt("docker", stage_deadline(stg), o))
    /\ stage' = "none"
    /\ IF stg = "only"
       THEN role_returns(out, outcome_rc(o),
                         IF outcome_rc(o) # -1 THEN "docker" ELSE "docker-unavailable")
       ELSE IF stg = "first"
       THEN IF outcome_rc(o) = -1 /\ outcome_err(o) \in {"docker-not-available", "timeout"}
            THEN call_pc' = "retry" /\ UNCHANGED <<call_ret, engineVars>>
            ELSE role_returns(out, outcome_rc(o), "docker")
       ELSE IF outcome_rc(o) # -1
            THEN role_returns(out, outcome_rc(o), "docker")
            ELSE call_pc' = "fallback" /\ UNCHANGED <<call_ret, engineVars>>

\* a _run_docker call: run_bot_in_docker with docker run and the bind mount
run_docker(stg) ==
    /\ IF stg = "only" THEN call_pc = "runner" /\ call_args.mode = "docker"
       ELSE IF stg = "first"
       THEN /\ call_pc = "runner"
            /\ call_args.mode = "auto"
            /\ call_args.timeout_ms > docker_startup_threshold_ms
       ELSE call_pc = "retry"
    /\ \E o \in {"ok", "own_failure", "own_file_error", "cannot_open",
                 "timeout", "unavailable"}, out \in Outputs :
          /\ o # "ok" => out = <<>>
          /\ execs' = IF o = "unavailable" THEN execs
                      ELSE Append(execs, Exec("docker_run", stage_deadline(stg), o))
          /\ IF o \in {"own_file_error", "cannot_open"}
             THEN \* need_cp_fallback
                  /\ call_pc' = "cp"
                  /\ stage' = stg
                  /\ UNCHANGED <<attempts, call_ret, engineVars>>
             ELSE docker_returns(stg, o, out)
    /\ UNCHANGED <<call_args, parsed_store, runnerVars, svcVars, libVars, matchVars>>

\* _docker_cp_fallback inside the _run_docker call in progress
docker_cp_fallback ==
    /\ call_pc = "cp"
    /\ \E o \in {"ok", "own_failure", "timeout", "create_failed"}, out \in Outputs :
          /\ o # "ok" => out = <<>>
          /\ execs' = IF o = "create_failed" THEN execs
                      ELSE Append(execs, Exec("docker_cp", stage_deadline(stage), o))
          /\ docker_returns(stage, o, out)
    /\ UNCHANGED <<call_args, parsed_store, runnerVars, svcVars, libVars, matchVars>>

\* the next call of _run_bot_for_role: step_game calls it for the player,
\* then for the opponent, and returns before both when the referee is finished
call_again ==
    /\ call_pc = "returned"
    /\ bot_failed = "none" \/ (bot_failed = "player" /\ call_args.role = "player")
    /\ call_pc' = "idle"
    /\ UNCHANGED <<call_args, parsed_store, stage, attempts, execs, call_ret,
                   engineVars, runnerVars, svcVars, libVars, matchVars>>

----------------------------------------------------------------------------
(* step_game: the requests POST /api/games/<id>/step on one match, each    *)
(* served by its own thread                                                *)

\* Requests on the match.
MaxRequests == 2

Reqs == 1..MaxRequests

NoActions == [player |-> <<>>, opponent |-> <<>>]

\* no function of the library is being called on its own
lib_init == fn_pc = "idle" /\ fn_args = <<>> /\ fn_ret = <<>>

svc_init ==
    /\ req_pc = [t \in Reqs |-> "idle"]
    /\ req_actions = [t \in Reqs |-> NoActions]

\* the action _run_bot_for_role returns for a bot that answers in time
BotAnswers(c, ps, side) == SeqsUpTo(Commands(c, ps, side), MaxCmds)

\* ref.is_finished(), and on True: return finished with ref.get_state(),
\* which calls is_finished() once more
step_game_check(t) ==
    /\ req_pc[t] = "idle"
    /\ IF is_finished(bot_failed, turn, pacs, pellets, cherries, scores)
       THEN /\ scores' = is_finished_scores(bot_failed, turn, pacs, pellets, cherries,
                            is_finished_scores(bot_failed, turn, pacs, pellets,
                                               cherries, scores))
            /\ awards' = IF is_finished_awards(bot_failed, turn, pacs)
                         THEN awards + 2 ELSE awards
            /\ req_pc' = [req_pc EXCEPT ![t] = "done"]
       ELSE /\ UNCHANGED <<scores, awards>>
            /\ req_pc' = [req_pc EXCEPT ![t] = "run_player"]
    /\ UNCHANGED <<cfg, pacs, pellets, cherries, turn, bot_failed, history,
                   req_actions, runnerVars, hostVars>>

\* _run_bot_for_role(game, ref, side, ...) is entered
bot_start(t, side) ==
    /\ req_pc[t] = (IF side = "player" THEN "run_player" ELSE "run_opponent")
    /\ req_pc' = [req_pc EXCEPT ![t] = IF side = "player" THEN "player_in_flight"
                                       ELSE "opponent_in_flight"]
    /\ UNCHANGED <<req_actions, engineVars, runnerVars, hostVars>>

\* _run_bot_for_role returns: an action, or 'STAY' after ref.on_bot_timeout
bot_returns(t, side) ==
    /\ req_pc[t] = (IF side = "player" THEN "player_in_flight" ELSE "opponent_in_flight")
    /\ req_pc' = [req_pc EXCEPT ![t] = IF side = "player" THEN "run_opponent"
                                       ELSE "step"]
    /\ \/ \E ans \in BotAnswers(cfg, pacs, side) :
             /\ req_actions' = [req_actions EXCEPT ![t][side] = ans]
             /\ UNCHANGED engineVars
       \/ /\ req_actions' = [req_actions EXCEPT ![t][side] = <<>>]
          /\ ref_on_bot_timeout(side)
    /\ UNCHANGED <<runnerVars, hostVars>>

\* state, stdout, stderr = ref.step(actions), and the response
referee_step(t) ==
    /\ req_pc[t] = "step"
    /\ step(req_actions[t])
    /\ req_pc' = [req_pc EXCEPT ![t] = "done"]
    /\ UNCHANGED req_actions

\* The sub-commands the bots write: the player names its own pac (1), the
\* opponent's (2) and a pac that does not exist (7), asks for a type that is
\* none, for a wall cell, and writes a word that is no command.
SubCommands(side) ==
    IF side = "player"
    THEN {Sub("MOVE", <<"1", "2", "2">>), Sub("SPEED", <<"1">>),
          Sub("SWITCH", <<"1", "SCISSORS">>),
          Sub("MOVE", <<"2", "2", "2">>), Sub("SPEED", <<"2">>),
          Sub("SWITCH", <<"2", "rock">>),
          Sub("MOVE", <<"7", "2", "2">>),
          Sub("SWITCH", <<"1", "FOO">>),
          Sub("MOVE", <<"1", "0", "0">>),
          Sub("FOO", <<>>)}
    ELSE {Sub("MOVE", <<"2", "2", "2">>), Sub("MOVE", <<"2", "3", "2">>)}

\* The outputs of the bots: nothing, or one line of CodecCmds sub-commands at most.
LineOutputs(side) ==
    {<<>>} \cup {<<line>> : line \in SeqsUpTo(SubCommands(side), CodecCmds) \ {<<>>}}

\* _run_bot_for_role returns on the output of a bot that ended in time with
\* status 0: the parsed action, or 'STAY' after ref.on_bot_timeout when
\* validate_action_format reports an error
bot_returns_line(t, side) ==
    /\ req_pc[t] = (IF side = "player" THEN "player_in_flight" ELSE "opponent_in_flight")
    /\ req_pc' = [req_pc EXCEPT ![t] = IF side = "player" THEN "run_opponent"
                                       ELSE "step"]
    /\ \E out \in LineOutputs(side) :
          IF validate_action_format(out, TRUE) # ""
          THEN /\ req_actions' = [req_actions EXCEPT ![t][side] = <<>>]
               /\ ref_on_bot_timeout(side)
          ELSE /\ req_actions' = [req_actions EXCEPT ![t][side] = parse_bot_output(out)]
               /\ UNCHANGED engineVars
    /\ UNCHANGED <<runnerVars, hostVars>>

\* the client sends the next step request of the match
next_request(t) ==
    /\ req_pc[t] = "done"
    /\ steps_recorded < CodecTurns
    /\ awards < MaxAwards
    /\ req_pc' = [req_pc EXCEPT ![t] = "idle"]
    /\ req_actions' = [req_actions EXCEPT ![t] = NoActions]
    /\ UNCHANGED <<engineVars, runnerVars, hostVars>>

\* The init_params of the matches on the ring: one pac a side, the abilities
\* available.
RingConfigs ==
    { [grid |-> GridR, pacs_per_player |-> 1, num_cherries |-> 0,
       speed_ability_available |-> TRUE, switch_ability_available |-> TRUE] }

\* The commands of a side in those matches: SPEED, and MOVE to one of the
\* three cells around the wrap, for its own pac.
RingCommands(ps, side) ==
    LET own == {i \in DOMAIN ps : ps[i].owner = side}
    IN {SpeedCmd(i) : i \in own}
       \cup {MoveCmd(i, c) : i \in own, c \in {<<0, 2>>, <<5, 2>>, <<6, 2>>}}

\* The commands of a side whose bot answers with ActionCmds commands at most:
\* those above on the ring, every command of its own pacs on the other grid.
ActionCommands(c, ps, side) ==
    IF c.grid = GridR THEN RingCommands(ps, side) ELSE Commands(c, ps, side)

\* _run_bot_for_role returns the action of a bot that answers in time
bot_returns_action(t, side) ==
    /\ req_pc[t] = (IF side = "player" THEN "player_in_flight" ELSE "opponent_in_flight")
    /\ req_pc' = [req_pc EXCEPT ![t] = IF side = "player" THEN "run_opponent"
                                       ELSE "step"]
    /\ \E ans \in SeqsUpTo(ActionCommands(cfg, pacs, side), ActionCmds) :
          req_actions' = [req_actions EXCEPT ![t][side] = ans]
    /\ UNCHANGED <<engineVars, runnerVars, hostVars>>

----------------------------------------------------------------------------
(* run_referee.py: run_match, the two bots as persistent processes *)

\* run_match has not been called
match_init ==
    /\ match_pc = "idle"
    /\ match_turn = 0
    /\ proc = [s \in SideSet |-> "none"]
    /\ ref_v1 = [bot_failed |-> "none", turn |-> 0, over |-> FALSE]

\* the engine, the runner and the service stand still during run_match
MatchFrame == UNCHANGED <<engineVars, runnerVars, callVars, libVars, svcVars>>

\* PacmanReferee.is_finished: a bot has failed, max_turns is reached, or the
\* pellets are gone or out of reach of the side behind (over)
is_finished_v1(ref) ==
    ref.bot_failed # "none" \/ ref.turn >= MatchTurns \/ ref.over

\* PacmanReferee.on_bot_timeout: it records the failure and does not raise
on_bot_timeout_v1(ref, bot_id) ==
    [ref EXCEPT !.bot_failed = bot_id, !.turn = MatchTurns]

\* ref.init_game({}) and the two Popen
run_match_start ==
    /\ match_pc = "idle"
    /\ match_pc' = "loop"
    /\ match_turn' = 0
    /\ proc' = [s \in SideSet |-> "running"]
    /\ ref_v1' = [bot_failed |-> "none", turn |-> 0, over |-> FALSE]
    /\ MatchFrame

\* a bot's process ends on its own
bot_exits(side) ==
    /\ match_pc \notin {"idle", "returned"}
    /\ proc[side] = "running"
    /\ proc' = [proc EXCEPT ![side] = "exited"]
    /\ UNCHANGED <<match_pc, match_turn, ref_v1>>
    /\ MatchFrame

\* while not ref.is_finished() and turn < max_turns: turn += 1
match_loop ==
    /\ match_pc = "loop"
    /\ IF ~is_finished_v1(ref_v1) /\ match_turn < MatchTurns
       THEN match_turn' = match_turn + 1 /\ match_pc' = "send"
       ELSE match_turn' = match_turn /\ match_pc' = "cleanup"
    /\ UNCHANGED <<proc, ref_v1>>
    /\ MatchFrame

\* the turn inputs are written to the stdin of both processes; a write that
\* fails is ignored
send_inputs ==
    /\ match_pc = "send"
    /\ match_pc' = "read_player"
    /\ UNCHANGED <<match_turn, proc, ref_v1>>
    /\ MatchFrame

\* _readline_with_timeout on the process of side, and the two tests that
\* follow it: a line was read; or the read timed out, the process running; or
\* the process has ended and nothing was read.  The try blocks around
\* ref.on_bot_timeout kill the processes only if it raises.
read_line(side) ==
    /\ match_pc = (IF side = "player" THEN "read_player" ELSE "read_opponent")
    /\ match_pc' = (IF side = "player" THEN "read_opponent" ELSE "step")
    /\ \/ /\ proc[side] \in {"running", "exited"}
          /\ ref_v1' = ref_v1
       \/ /\ proc[side] = "running"
          /\ ref_v1' = on_bot_timeout_v1(ref_v1, side)
       \/ /\ proc[side] = "exited"
          /\ ref_v1' = on_bot_timeout_v1(ref_v1, side)
    /\ UNCHANGED <<match_turn, proc>>
    /\ MatchFrame

\* state, stdout_log, stderr_log = ref.step(actions)
match_step ==
    /\ match_pc = "step"
    /\ match_pc' = "loop"
    /\ \E o \in {ref_v1.over, TRUE} :
          ref_v1' = [ref_v1 EXCEPT !.turn = @ + 1, !.over = o]
    /\ UNCHANGED <<match_turn, proc>>
    /\ MatchFrame

\* "# Cleanup": both processes are killed, and run_match returns
match_cleanup ==
    /\ match_pc = "cleanup"
    /\ match_pc' = "returned"
    /\ proc' = [s \in SideSet |-> "killed"]
    /\ UNCHANGED <<match_turn, ref_v1>>
    /\ MatchFrame

----------------------------------------------------------------------------
(* Functions of the library called on their own *)

\* the engine, the runner and the service stand still during such a call
LibFrame == UNCHANGED <<engineVars, runnerVars, callVars, svcVars, matchVars>>

\* the match that stands still
LibMatch ==
    init_game([grid |-> GridC, pacs_per_player |-> 1, num_cherries |-> 0,
               speed_ability_available |-> TRUE, switch_ability_available |-> TRUE])

GridCells(w, h) == (0..(w - 1)) \X (0..(h - 1))

\* The grids of PathW columns and PathH rows: any cell is floor or wall.
PathGrids ==
    {[width |-> PathW, height |-> PathH, floor |-> F] : F \in SUBSET GridCells(PathW, PathH)}

\* The targets: the cells of the grid and the cells around it.
PathTargets == ((-1)..PathW) \X ((-1)..PathH)

\* the arguments of a call of _bfs_path: self.grid, start (a floor cell), target
PathArgs ==
    {[grid |-> g, start |-> st, target |-> tg] :
        g \in PathGrids, st \in GridCells(PathW, PathH), tg \in PathTargets}

bfs_path_called ==
    /\ fn_pc = "called"
    /\ fn_args \in {a \in PathArgs : a.start \in a.grid.floor}
    /\ fn_ret = <<>>

bfs_path_call ==
    /\ fn_pc = "called"
    /\ fn_ret' = bfs_path(fn_args.grid, fn_args.start, fn_args.target)
    /\ fn_pc' = "returned"
    /\ UNCHANGED fn_args
    /\ LibFrame

----------------------------------------------------------------------------
(* MazeGenerator *)

max_x(blocks) == CHOOSE m \in {b[1] : b \in blocks} : \A b \in blocks : b[1] <= m

max_y(blocks) == CHOOSE m \in {b[2] : b \in blocks} : \A b \in blocks : b[2] <= m

flip_x(blocks) == {<<max_x(blocks) - b[1], b[2]>> : b \in blocks}

flip_y(blocks) == {<<b[1], max_y(blocks) - b[2]>> : b \in blocks}

transpose(blocks) == {<<b[2], b[1]>> : b \in blocks}

\* _init_pieces: self.pieces, each piece being its set of blocks
Pieces ==
    LET square == {<<0, 0>>, <<1, 0>>, <<0, 1>>, <<1, 1>>}
        l_shape == {<<0, 0>>, <<0, 1>>, <<1, 1>>}
        t_vert == {<<0, 0>>, <<0, 1>>, <<1, 1>>, <<0, 2>>}
        cross == {<<1, 0>>, <<0, 1>>, <<1, 1>>, <<2, 1>>, <<1, 2>>}
        t_hor == {<<0, 0>>, <<0, 1>>, <<1, 1>>, <<2, 1>>}
    IN <<square,
         l_shape, flip_x(l_shape), flip_y(l_shape), transpose(l_shape),
         t_vert, flip_x(t_vert), transpose(t_vert), flip_y(transpose(t_vert)),
         cross,
         t_hor, flip_x(t_hor), flip_y(t_hor), flip_x(flip_y(t_hor)),
         flip_x(flip_y(transpose(t_hor))), transpose(t_hor),
         flip_y(transpose(t_hor)), flip_x(transpose(t_hor))>>

piece_fits(blocks, occupied, pos) ==
    \A b \in blocks : <<pos[1] + b[1], pos[2] + b[2]>> \notin occupied

\* _place_piece: st carries block_origin and generated_pieces; occupied is
\* the domain of block_origin
place_piece(st, blocks, pos) ==
    LET cells == {<<pos[1] + b[1], pos[2] + b[2]>> : b \in blocks}
    IN [st EXCEPT
          !.block_origin = [c \in DOMAIN st.block_origin \cup cells |->
                               IF c \in cells THEN pos ELSE st.block_origin[c]],
          !.generated_pieces = [o \in DOMAIN st.generated_pieces \cup {pos} |->
                                   IF o = pos THEN blocks ELSE st.generated_pieces[o]]]

\* half_w of generate_with_horizontal_symmetry: the width of the mini grid
half_w(width) == width \div 2 + 1

\* gen_w and gen_h of _generate_base(width, height)
gen_w(width) == width \div 2 + 1

gen_h(height) == height \div 2 + 1

\* the directions in which _generate_base looks around a block
base_dirs == <<<<0, -1>>, <<1, 0>>, <<0, 1>>, <<-1, 0>>>>

\* the corridors _generate_base opens around the blocks: the floor of the
\* grid of `width` columns it returns
base_floor(st, width, height) ==
    {c \in GridCells(width, height) :
        \E x \in 1..(gen_w(width) - 1), y \in 1..(gen_h(height) - 1) :
            /\ <<x, y>> \in DOMAIN st.block_origin
            /\ x * 2 - 1 < width
            /\ y * 2 - 1 < height
            /\ \E d \in 1..Len(base_dirs), i \in 0..2 :
                  LET origin == st.block_origin[<<x, y>>]
                      block == <<x - origin[1], y - origin[2]>>
                      adj == <<block[1] + base_dirs[d][1], block[2] + base_dirs[d][2]>>
                  IN /\ adj \notin st.generated_pieces[origin]
                     /\ c = IF base_dirs[d][1] = 0
                            THEN <<x * 2 - 1 - 1 + i, y * 2 - 1 + base_dirs[d][2]>>
                            ELSE <<x * 2 - 1 + base_dirs[d][1], y * 2 - 1 - 1 + i>>}

\* grid[0][x] = grid[height - 1][x] = '#'
force_borders(floor, height) == {c \in floor : c[2] # 0 /\ c[2] # height - 1}

\* the two loops that copy the mini grid to the left and to the right
mirror_floor(mini, width) ==
    {c \in mini.floor : c[1] < half_w(width)}
    \cup {<<width - c[1] - 1, c[2]>> : c \in {m \in mini.floor : m[1] < half_w(width)}}

\* the inner while loop: the first row from y on that is not floor in column x
RECURSIVE group_end(_, _, _, _)
group_end(floor, x, y, height) ==
    IF y < height - 1 /\ <<x, y>> \in floor THEN group_end(floor, x, y + 1, height)
    ELSE y

\* a group of passages start_y..end_y of column x: only its middle cell stays
narrow_group(floor, x, start_y, end_y, height) ==
    IF end_y > start_y
    THEN LET mid_y == (start_y + end_y) \div 2
             kept == floor \ {<<x, cy>> : cy \in (start_y..end_y) \ {mid_y}}
             above == IF mid_y > 0 THEN kept \ {<<x, mid_y - 1>>} ELSE kept
         IN IF mid_y < height - 1 THEN above \ {<<x, mid_y + 1>>} ELSE above
    ELSE floor

\* the outer while loop over the rows of column x
RECURSIVE tunnel_column(_, _, _, _)
tunnel_column(floor, x, y, height) ==
    IF ~(y < height - 1) THEN floor
    ELSE IF <<x, y>> \in floor
    THEN tunnel_column(narrow_group(floor, x, y, group_end(floor, x, y, height) - 1, height),
                       x, group_end(floor, x, y, height), height)
    ELSE tunnel_column(floor, x, y + 1, height)

\* "for x in [0, width - 1]"
tunnels(floor, width, height) ==
    tunnel_column(tunnel_column(floor, 0, 1, height), width - 1, 1, height)

\* _flood_fill: the queue is emptied cell by cell
RECURSIVE flood_fill(_, _, _, _)
flood_fill(grid, queue, visited, island) ==
    IF queue = <<>> THEN [island |-> island, visited |-> visited]
    ELSE LET c == Head(queue)
         IN IF \/ c \in visited
               \/ c[1] < 0 \/ c[1] >= grid.width \/ c[2] < 0 \/ c[2] >= grid.height
            THEN flood_fill(grid, Tail(queue), visited, island)
            ELSE IF c \notin grid.floor
            THEN flood_fill(grid, Tail(queue), visited, island)
            ELSE flood_fill(grid,
                     Tail(queue) \o [d \in 1..4 |->
                         <<c[1] + base_dirs[d][1], c[2] + base_dirs[d][2]>>],
                     visited \cup {c}, island \cup {c})

\* the scan of _remove_islands over the cells, row by row: the islands in
\* the order they are found
RECURSIVE find_islands(_, _, _, _)
find_islands(grid, k, visited, islands) ==
    IF k >= grid.width * grid.height THEN islands
    ELSE LET c == <<k % grid.width, k \div grid.width>>
         IN IF c \in grid.floor /\ c \notin visited
            THEN LET r == flood_fill(grid, <<c>>, visited, {})
                 IN find_islands(grid, k + 1, r.visited, Append(islands, r.island))
            ELSE find_islands(grid, k + 1, visited, islands)

\* Mutation of largest_island: of the islands of the largest size, the last found.
largest_island_last(islands) ==
    islands[CHOOSE k \in 1..Len(islands) :
               /\ \A j \in 1..Len(islands) : Cardinality(islands[j]) <= Cardinality(islands[k])
               /\ \A j \in (k + 1)..Len(islands) :
                     Cardinality(islands[j]) < Cardinality(islands[k])]

\* sorted(islands, key=len, reverse=True)[0]: the sort is stable, of the
\* islands of the largest size the first found comes first
largest_island(islands) ==
    islands[CHOOSE k \in 1..Len(islands) :
               /\ \A j \in 1..Len(islands) : Cardinality(islands[j]) <= Cardinality(islands[k])
               /\ \A j \in 1..(k - 1) : Cardinality(islands[j]) < Cardinality(islands[k])]

\* Mutation of remove_islands: nothing is removed.
remove_islands_none(grid) == grid

remove_islands(grid) ==
    LET islands == find_islands(grid, 0, {}, <<>>)
    IN IF islands = <<>> THEN grid
       ELSE [grid EXCEPT !.floor = @ \cap largest_island(islands)]

\* The sizes of the grids generated: the two widths up to MazeW, the heights
\* from 3 to MazeH.
MazeSizes == ((MazeW - 1)..MazeW) \X (3..MazeH)

\* generate_with_horizontal_symmetry(width, height) is called
generate_called ==
    /\ fn_pc = "base"
    /\ \E size \in MazeSizes : fn_args = [width |-> size[1], height |-> size[2]]
    /\ fn_ret = [k |-> 0, block_origin |-> <<>>, generated_pieces |-> <<>>]

\* _generate_base, one position (x, y) of its double loop
generate_base_place ==
    /\ fn_pc = "base"
    /\ fn_ret.k < gen_w(half_w(fn_args.width)) * gen_h(fn_args.height)
    /\ LET pos == <<fn_ret.k % gen_w(half_w(fn_args.width)),
                    fn_ret.k \div gen_w(half_w(fn_args.width))>>
           occupied == DOMAIN fn_ret.block_origin
           available == {i \in 1..Len(Pieces) : piece_fits(Pieces[i], occupied, pos)}
       IN IF pos \notin occupied /\ Cardinality(available) > 1
          THEN \E i \in available :
                  fn_ret' = [place_piece(fn_ret, Pieces[i], pos) EXCEPT !.k = @ + 1]
          ELSE fn_ret' = [fn_ret EXCEPT !.k = @ + 1]
    /\ UNCHANGED <<fn_pc, fn_args>>
    /\ LibFrame

\* _generate_base returns the mini grid
generate_base_return ==
    /\ fn_pc = "base"
    /\ fn_ret.k = gen_w(half_w(fn_args.width)) * gen_h(fn_args.height)
    /\ fn_ret' = [width |-> half_w(fn_args.width), height |-> fn_args.height,
                  floor |-> base_floor(fn_ret, half_w(fn_args.width), fn_args.height)]
    /\ fn_pc' = "mirror"
    /\ UNCHANGED fn_args
    /\ LibFrame

\* the full grid: the mini grid and its mirror image, the top and the bottom
\* row walled
generate_mirror ==
    /\ fn_pc = "mirror"
    /\ fn_ret' = [width |-> fn_args.width, height |-> fn_args.height,
                  floor |-> force_borders(mirror_floor(fn_ret, fn_args.width),
                                          fn_args.height)]
    /\ fn_pc' = "tunnels"
    /\ UNCHANGED fn_args
    /\ LibFrame

generate_tunnels ==
    /\ fn_pc = "tunnels"
    /\ fn_ret' = [fn_ret EXCEPT !.floor = tunnels(@, fn_args.width, fn_args.height)]
    /\ fn_pc' = "islands"
    /\ UNCHANGED fn_args
    /\ LibFrame

\* self._remove_islands(grid); return grid
generate_remove_islands ==
    /\ fn_pc = "islands"
    /\ fn_ret' = remove_islands(fn_ret)
    /\ fn_pc' = "generated"
    /\ UNCHANGED fn_args
    /\ LibFrame

\* init_game goes on with _spawn_pacs on the grid generated, for
\* pacs_per_player from 1 to SpawnPacs and with or without the switch ability;
\* left_positions[idx] raises IndexError when the list is empty
spawn_pacs_call ==
    /\ fn_pc = "generated"
    /\ \E n \in 1..SpawnPacs, sw \in BOOLEAN :
          LET c == [grid |-> fn_ret, pacs_per_player |-> n, num_cherries |-> 0,
                    speed_ability_available |-> TRUE, switch_ability_available |-> sw]
          IN IF left_positions(fn_ret) = <<>> \/ right_positions(fn_ret) = <<>>
             THEN /\ fn_pc' = "raised"
                  /\ fn_ret' = [grid |-> fn_ret, config |-> c, pacs |-> <<>>]
             ELSE /\ fn_pc' = "spawned"
                  /\ fn_ret' = [grid |-> fn_ret, config |-> c, pacs |-> spawn_pacs(c)]
    /\ UNCHANGED fn_args
    /\ LibFrame

----------------------------------------------------------------------------
(* The commands of a bot, written and read back *)

\* The well-formed commands: pacs 1 and 2, the cells of the grid GridC up
\* to column and row RoundCoord, the three types.
RoundCommands ==
    {MoveCmd(i, <<x, y>>) : i \in {1, 2}, x \in 0..RoundCoord, y \in 0..RoundCoord}
    \cup {SpeedCmd(i) : i \in {1, 2}}
    \cup {SwitchCmd(i, ty) : i \in {1, 2}, ty \in {ROCK, PAPER, SCISSORS}}

\* the text of a command as the bots print it
write_command(cmd) ==
    IF cmd.kind = "MOVE"
    THEN Sub("MOVE", <<str(cmd.pac), str(cmd.target[1]), str(cmd.target[2])>>)
    ELSE IF cmd.kind = "SPEED" THEN Sub("SPEED", <<str(cmd.pac)>>)
    ELSE Sub("SWITCH", <<str(cmd.pac), to_string(cmd.new_type)>>)

\* " | ".join(commands)
write_line(cmds) == [k \in 1..Len(cmds) |-> write_command(cmds[k])]

\* a bot is about to print the commands of fn_args
round_trip_called ==
    /\ fn_pc = "called"
    /\ fn_args \in SeqsUpTo(RoundCommands, RoundCmds)
    /\ fn_ret = <<>>

\* the line goes through parse_bot_output and step reads the result
round_trip_call ==
    /\ fn_pc = "called"
    /\ fn_ret' = parse_bot_output(<<write_line(fn_args)>>)
    /\ fn_pc' = "returned"
    /\ UNCHANGED fn_args
    /\ LibFrame

----------------------------------------------------------------------------
(* The turn inputs *)

\* The matches whose turn inputs are made: two pacs a side, and one pac a
\* side with a cherry.
InputConfigs ==
    TeamConfigs \cup {c \in SoloConfigs : c.num_cherries = 1}

\* these matches are stepped InputSteps times before the turn input is made
InputStep ==
    /\ fn_pc = "idle"
    /\ steps_recorded < InputSteps
    /\ \E a \in TurnInputs(cfg, pacs) : step(a)
    /\ UNCHANGED svcVars

\* what the bot can be told: the scores, the living pacs, the pellets and
\* the cherries of the referee when the input is made
Seen(kind, bot_id, sc, living, pel, ch) ==
    [referee |-> kind, bot_id |-> bot_id, scores |-> sc, living |-> living,
     pellets |-> pel, cherries |-> ch]

\* step_game makes the input of a side: ref.make_bot_input(side)
make_bot_input_call(bot_id) ==
    /\ fn_pc = "idle"
    /\ fn_args' = Seen("pacman_v2", bot_id, scores,
                       [i \in {j \in DOMAIN pacs : ~pacs[j].dead} |->
                           [owner |-> pacs[i].owner, position |-> pacs[i].position]],
                       pellets, cherries)
    /\ fn_ret' = make_bot_input(pacs, pellets, cherries, scores, bot_id)
    /\ fn_pc' = "returned"
    /\ LibFrame

\* PacmanReferee.init_game: a grid without walls, a pellet on every cell but
\* the two spawn cells
V1Cells == (0..(V1W - 1)) \X (0..(V1H - 1))

\* The states of that referee: the two pacs on two cells, no pellet under a
\* pac, and one point scored for each pellet that was eaten.
V1States ==
    {st \in [pacs : [SideSet -> V1Cells], scores : [SideSet -> 0..Cardinality(V1Cells)],
             pellets : SUBSET V1Cells] :
        /\ st.pacs["player"] # st.pacs["opponent"]
        /\ st.pellets \cap {st.pacs["player"], st.pacs["opponent"]} = {}
        /\ st.scores["player"] + st.scores["opponent"]
              = Cardinality(V1Cells) - 2 - Cardinality(st.pellets)}

\* pac 0 is the player's and pac 1 the opponent's
V1Living(st) ==
    [i \in {0, 1} |-> [owner |-> Sides[i + 1], position |-> st.pacs[Sides[i + 1]]]]

\* PacmanReferee.make_bot_input(bot_id), in a state of that referee
make_bot_input_v1_call(bot_id) ==
    /\ fn_pc = "idle"
    /\ \E st \in V1States :
          /\ fn_args' = Seen("pacman_v1", bot_id, st.scores, V1Living(st), st.pellets, {})
          /\ fn_ret' = make_bot_input_v1(st.pacs, st.pellets, st.scores, bot_id)
    /\ fn_pc' = "returned"
    /\ LibFrame

\* run_referee.py: make_per_turn_input(ref, bot_id)
make_per_turn_input_call(bot_id) ==
    /\ fn_pc = "idle"
    /\ \E st \in V1States :
          /\ fn_args' = Seen("run_referee", bot_id, st.scores, V1Living(st), st.pellets, {})
          /\ fn_ret' = make_per_turn_input(st.pacs, st.pellets, st.scores, bot_id)
    /\ fn_pc' = "returned"
    /\ LibFrame

\* the input is handed to the bot, which reads it
input_sent ==
    /\ fn_pc = "returned"
    /\ fn_pc' = "sent"
    /\ UNCHANGED <<fn_args, fn_ret>>
    /\ LibFrame

----------------------------------------------------------------------------
(* Specifications *)

\* Matches of one pac a side, with bot failures.
Init == (\E c \in SoloConfigs : init_game(c)) /\ runner_init /\ host_init /\ svc_init /\ lib_init /\ match_init

Next == Step \/ is_finished_call \/ get_state_call \/ BotTimeout

Spec == Init /\ [][Next]_vars

\* Matches of two pacs a side, played without bot failures.
TeamInit == (\E c \in TeamConfigs : init_game(c)) /\ runner_init /\ host_init /\ svc_init /\ lib_init /\ match_init

TeamNext == Step \/ is_finished_call \/ get_state_call

TeamSpec == TeamInit /\ [][TeamNext]_vars

\* The runner's invocations of one match; the referee is not stepped.
RunnerInit == (\E c \in TeamConfigs : init_game(c)) /\ runner_init /\ host_init /\ svc_init /\ lib_init /\ match_init

RunnerNext ==
    \/ run_subprocess_start
    \/ run_bot_in_docker_start
    \/ docker_cp_fallback_start
    \/ exec_code_with_io_start
    \/ Tick
    \/ bot_answers
    \/ run_subprocess_timeout
    \/ run_bot_in_docker_timeout
    \/ docker_cp_fallback_timeout
    \/ exec_code_with_io_timeout
    \/ bot_lingers
    \/ next_invocation

RunnerSpec == RunnerInit /\ [][RunnerNext]_vars

\* Matches of one pac a side in which the abilities are used, stepped beyond
\* the model's MaxTurns (the source's max_turns is 200).
AbilityInit == (\E c \in AbilityConfigs : init_game(c)) /\ runner_init /\ host_init /\ svc_init /\ lib_init /\ match_init

AbilityNext == AbilityStep

AbilitySpec == AbilityInit /\ [][AbilityNext]_vars

\* The calls of _run_bot_for_role of one match; the referee is not stepped.
CallInit == (\E c \in TeamConfigs : init_game(c)) /\ runner_init /\ host_init /\ svc_init /\ lib_init /\ match_init

CallNext ==
    \/ run_bot_for_role
    \/ parsed_init
    \/ parsed_turn
    \/ run_subprocess("subprocess")
    \/ run_subprocess("subprocess_fallback")
    \/ run_docker("only")
    \/ run_docker("first")
    \/ run_docker("retry")
    \/ docker_cp_fallback
    \/ call_again

CallSpec == CallInit /\ [][CallNext]_vars

\* The requests on one match of one pac a side, each thread taking its steps
\* whenever the server schedules it.
ServeInit == (\E c \in SoloConfigs : init_game(c)) /\ runner_init /\ host_init /\ svc_init /\ lib_init /\ match_init

ServeNext ==
    \/ \E t \in Reqs : step_game_check(t)
    \/ \E t \in Reqs, side \in SideSet : bot_start(t, side)
    \/ \E t \in Reqs, side \in SideSet : bot_returns(t, side)
    \/ \E t \in Reqs : referee_step(t)

ServeSpec == ServeInit /\ [][ServeNext]_vars

\* The turns of one match of one pac a side whose client sends one step
\* request after the other, the bots writing their commands as text.
CodecInit == (\E c \in SoloConfigs : init_game(c)) /\ runner_init /\ host_init /\ svc_init /\ lib_init /\ match_init

CodecNext ==
    \/ step_game_check(1)
    \/ \E side \in SideSet : bot_start(1, side)
    \/ \E side \in SideSet : bot_returns_line(1, side)
    \/ referee_step(1)
    \/ next_request(1)

CodecSpec == CodecInit /\ [][CodecNext]_vars

\* The same turns, the bots answering with commands of their own pacs.
TurnsInit == (\E c \in SoloConfigs : init_game(c)) /\ runner_init /\ host_init /\ svc_init /\ lib_init /\ match_init

TurnsNext ==
    \/ step_game_check(1)
    \/ \E side \in SideSet : bot_start(1, side)
    \/ \E side \in SideSet : bot_returns(1, side)
    \/ referee_step(1)
    \/ next_request(1)

TurnsSpec == TurnsInit /\ [][TurnsNext]_vars

\* The turns of one match on the ring, the pacs under SPEED.
RingInit == (\E c \in RingConfigs : init_game(c)) /\ runner_init /\ host_init /\ svc_init /\ lib_init /\ match_init

RingNext ==
    \/ step_game_check(1)
    \/ \E side \in SideSet : bot_start(1, side)
    \/ \E side \in SideSet : bot_returns_action(1, side)
    \/ referee_step(1)
    \/ next_request(1)

RingSpec == RingInit /\ [][RingNext]_vars

\* One turn of a match of two pacs a side.
GroupInit == (\E c \in TeamConfigs : init_game(c)) /\ runner_init /\ host_init /\ svc_init /\ lib_init /\ match_init

GroupNext ==
    \/ step_game_check(1)
    \/ \E side \in SideSet : bot_start(1, side)
    \/ \E side \in SideSet : bot_returns_action(1, side)
    \/ referee_step(1)

GroupSpec == GroupInit /\ [][GroupNext]_vars

\* One call of run_match.
MatchInit == LibMatch /\ runner_init /\ host_init /\ svc_init /\ lib_init /\ match_init

MatchNext ==
    \/ run_match_start
    \/ \E side \in SideSet : bot_exits(side)
    \/ match_loop
    \/ send_inputs
    \/ \E side \in SideSet : read_line(side)
    \/ match_step
    \/ match_cleanup

MatchSpec == MatchInit /\ [][MatchNext]_vars

\* _bfs_path called on every grid of PathW by PathH cells.
PathInit == LibMatch /\ runner_init /\ host_init /\ svc_init /\ bfs_path_called /\ match_init

PathNext == bfs_path_call

PathSpec == PathInit /\ [][PathNext]_vars

\* init_game on the sizes of MazeSizes: generate_with_horizontal_symmetry,
\* then _spawn_pacs.
MazeInit == LibMatch /\ runner_init /\ host_init /\ svc_init /\ generate_called /\ match_init

MazeNext ==
    \/ generate_base_place
    \/ generate_base_return
    \/ generate_mirror
    \/ generate_tunnels
    \/ generate_remove_islands
    \/ spawn_pacs_call

MazeSpec == MazeInit /\ [][MazeNext]_vars

\* Lines of well-formed commands through parse_bot_output and step.
RoundInit == LibMatch /\ runner_init /\ host_init /\ svc_init /\ round_trip_called /\ match_init

RoundNext == round_trip_call

RoundSpec == RoundInit /\ [][RoundNext]_vars

\* The turn inputs of the three referees' functions.
InputInit == (\E c \in InputConfigs : init_game(c)) /\ runner_init /\ host_init /\ svc_init /\ lib_init /\ match_init

InputNext ==
    \/ InputStep
    \/ \E bot_id \in SideSet : make_bot_input_call(bot_id)
    \/ \E bot_id \in SideSet : make_bot_input_v1_call(bot_id)
    \/ \E bot_id \in SideSet : make_per_turn_input_call(bot_id)
    \/ input_sent

InputSpec == InputInit /\ [][InputNext]_vars

----------------------------------------------------------------------------
(* Vocabulary of the properties *)

Living(ps) == {i \in DOMAIN ps : ~ps[i].dead}

\* Rock > Scissors, Paper > Rock, Scissors > Paper
Dominates(a, b) ==
    \/ a = ROCK /\ b = SCISSORS
    \/ a = PAPER /\ b = ROCK
    \/ a = SCISSORS /\ b = PAPER

\* the pacs of the roster standing on the cell of pac i
CellMates(ps, i) == {j \in DOMAIN ps : ps[j].position = ps[i].position}

Foes(ps, i) == {j \in CellMates(ps, i) : ps[j].owner # ps[i].owner}

\* the spawn put every pac on a cell of its own
DistinctSpawn(c) ==
    \A i, j \in DOMAIN spawn_pacs(c) :
        i # j => spawn_pacs(c)[i].position # spawn_pacs(c)[j].position

LastEntry == history[Len(history)]

\* the transition is a call of step: it appended a turn's entry to the history
IsStep ==
    /\ Len(history') = Len(history) + 1
    /\ history'[Len(history')].stderr = "step"

\* the transition is a call of is_finished or get_state: no step, no timeout
IsQuery == history' = history

Finished == is_finished(bot_failed, turn, pacs, pellets, cherries, scores)

\* the first living pac, in roster order, standing on pos
FirstOn(ps, pos) ==
    CHOOSE i \in Living(ps) :
        /\ ps[i].position = pos
        /\ \A j \in Living(ps) : ps[j].position = pos => i <= j

\* the cells of `before` emptied in this transition and credited to side
EatenBy(side, before, after, ps) ==
    {p \in before \ after : ps[FirstOn(ps, p)].owner = side}

\* the cells of `before` emptied in this transition on which side has a living pac
EatenUnder(side, before, after, ps) ==
    {p \in before \ after : \E i \in Living(ps) : ps[i].owner = side /\ ps[i].position = p}

\* what the get_state() at the end of step credits to side as the survivor
StepAward(side) ==
    IF /\ bot_failed' = "none"
       /\ turn' < MaxTurns
       /\ alive(pacs', side)
       /\ ~alive(pacs', Other(side))
    THEN remaining_points(pellets', cherries')
    ELSE 0

----------------------------------------------------------------------------
(* C1 *)

\* C1, as claimed: from a spawn with all pacs on distinct cells, no two living
\* pacs that share an owner or share a type ever stand on the same cell.
Claim_C1 ==
    DistinctSpawn(cfg) =>
        \A i, j \in Living(pacs) :
            (i # j /\ (pacs[i].owner = pacs[j].owner \/ pacs[i].type = pacs[j].type))
                => pacs[i].position # pacs[j].position

----------------------------------------------------------------------------
(* C2 *)

----------------------------------------------------------------------------
(* C3 *)

----------------------------------------------------------------------------
(* C4 *)

\* C4, as claimed: the points left on the board are credited to the survivor
\* once, so a call of is_finished or get_state changes neither the scores nor
\* the pellets nor the cherries.
Claim_C4 ==
    [][IsQuery => (scores' = scores /\ pellets' = pellets /\ cherries' = cherries)]_vars

----------------------------------------------------------------------------
(* C5 *)

\* C5, as claimed: whenever no pellet and no cherry is left, is_finished
\* returns true, whatever the scores.
Claim_C5 == (pellets = {} /\ cherries = {}) => Finished

----------------------------------------------------------------------------
(* C6 *)

\* C6: on_bot_timeout(side), called in any state, sets bot_failed to side, the
\* score of side to 0 and turn to max_turns, appends exactly one history entry,
\* which carries the diagnostic, makes is_finished true, and leaves the other
\* side's score, the pacs, the pellets and the cherries as they were.
Thm_C6 ==
    [][\A b \in SideSet :
          on_bot_timeout(b) =>
              /\ bot_failed' = b
              /\ scores'[b] = 0
              /\ turn' = MaxTurns
              /\ Len(history') = Len(history) + 1
              /\ SubSeq(history', 1, Len(history)) = history
              /\ history'[Len(history')].stderr \in {"timeout player", "timeout opponent"}
              /\ is_finished(bot_failed', turn', pacs', pellets', cherries', scores')
              /\ scores'[Other(b)] = scores[Other(b)]
              /\ pacs' = pacs
              /\ pellets' = pellets
              /\ cherries' = cherries]_vars

\* a bot has just failed in a running match in which both sides had scored
\* nothing yet or the other side had: its entry is the last of the history
Wit_C6 ==
    /\ bot_failed # "none"
    /\ LastEntry.stderr \in {"timeout player", "timeout opponent"}
    /\ Len(history) >= 3
    /\ scores[Other(bot_failed)] > 0
    /\ pellets # {}

----------------------------------------------------------------------------
(* C7 *)

\* C7, as claimed: once a bot has failed, the winner reported is the other
\* side, in that state and in every later one.
Claim_C7 ==
    bot_failed # "none" =>
        get_state_winner(bot_failed, turn, pacs, pellets, cherries, scores) = Other(bot_failed)

----------------------------------------------------------------------------
(* C8 *)

\* C8: every step increments turn by exactly 1, and after max_turns calls of
\* step is_finished is true, whatever the commands were.
Thm_C8 ==
    /\ [](steps_recorded >= MaxTurns => Finished)
    /\ [][IsStep => turn' = turn + 1]_vars

\* max_turns steps were played and nothing but the turn limit ends the match
Wit_C8 ==
    /\ steps_recorded = MaxTurns
    /\ turn = MaxTurns
    /\ bot_failed = "none"
    /\ alive(pacs, "player") /\ alive(pacs, "opponent")
    /\ Abs(scores["player"] - scores["opponent"]) <= remaining_points(pellets, cherries)

----------------------------------------------------------------------------
(* C9 *)

\* C9: once is_finished is true it is true after every further call of step,
\* on_bot_timeout, is_finished or get_state.
Thm_C9 ==
    [][Finished => is_finished(bot_failed', turn', pacs', pellets', cherries', scores')]_vars

\* a match that ended by the loss of all the pacs of a side was stepped again:
\* the dead pacs have left the roster
Wit_C9 ==
    /\ bot_failed = "none"
    /\ LastEntry.stderr = "step"
    /\ \E s \in SideSet : \A i \in DOMAIN pacs : pacs[i].owner # s

----------------------------------------------------------------------------
(* C10 *)

\* C10, as claimed: when the runner has returned the timeout failure
\* ('timeout', rc -1), on whichever path, the process, container or thread
\* that executed the bot is no longer running.
Claim_C10 ==
    (run_pc = "returned" /\ result = TimeoutResult) => bot_exec.state # "running"

----------------------------------------------------------------------------
(* Vocabulary of the properties of the calls *)

\* the _run_docker call reported an availability or timeout failure
Retryable(a) == a.rc = -1 /\ a.err \in {"docker-not-available", "timeout"}

AutoAboveThreshold ==
    call_args.mode = "auto" /\ call_args.timeout_ms > docker_startup_threshold_ms

AllLimits(e) ==
    /\ e.limits.network_none
    /\ e.limits.memory
    /\ e.limits.cpus
    /\ e.limits.pids_limit
    /\ e.limits.read_only
    /\ e.limits.tmpfs

----------------------------------------------------------------------------
\* C11: in auto mode with a deadline above the threshold, BotRunner.run tries
\* the container first; it retries the container once, with a strictly larger
\* deadline, only after an availability or timeout failure, and such a failure
\* is always retried; it runs the bare process once, only after a failed
\* retry, and returns its result; any other container result is returned as
\* it is, without retry or fallback.
Thm_C11 ==
    AutoAboveThreshold =>
        /\ Len(attempts) <= 3
        /\ Len(attempts) >= 1 => attempts[1].strategy = "docker"
        /\ Len(attempts) >= 2 =>
              /\ Retryable(attempts[1])
              /\ attempts[2].strategy = "docker"
              /\ attempts[2].deadline > attempts[1].deadline
        /\ Len(attempts) >= 3 =>
              /\ attempts[2].rc = -1
              /\ attempts[3].strategy = "subprocess"
        /\ call_pc = "retry" => Len(attempts) = 1
        /\ call_pc = "fallback" => Len(attempts) = 2
        /\ (call_pc = "returned" /\ Len(attempts) >= 1) =>
              /\ call_ret.run_rc = attempts[Len(attempts)].rc
              /\ Len(attempts) = 1 => ~Retryable(attempts[1])
              /\ Len(attempts) = 2 => attempts[2].rc # -1

\* the container failed twice and the result of the bare process was returned
Wit_C11 ==
    /\ AutoAboveThreshold
    /\ call_pc = "returned"
    /\ Len(attempts) = 3
    /\ call_ret.runner = "subprocess_fallback"

\* C12: once an execution of the bot's code has ended with the bot's own
\* non-zero status, the same call starts no further execution of that code.
Claim_C12 ==
    \A k \in 1..Len(execs) : execs[k].outcome \in OwnFailures => k = Len(execs)

\* C13: every execution the runner starts, as a bare process or in a
\* container with the code mounted or copied, has the network disabled,
\* memory, CPU and process count capped, and a read-only root file system
\* with a scratch area.
Claim_C13 ==
    \A k \in 1..Len(execs) :
        execs[k].how \in {"subprocess", "docker_run", "docker_cp"} => AllLimits(execs[k])

----------------------------------------------------------------------------
(* Vocabulary of the properties of step_game *)

\* request t has entered _run_bot_for_role for the side
Started(t, side) ==
    IF side = "player"
    THEN req_pc[t] \in {"player_in_flight", "run_opponent", "opponent_in_flight", "step"}
    ELSE req_pc[t] \in {"opponent_in_flight", "step"}

\* _run_bot_for_role for the side has returned or timed out in request t
Returned(t, side) ==
    IF side = "player"
    THEN req_pc[t] \in {"run_opponent", "opponent_in_flight", "step"}
    ELSE req_pc[t] = "step"

\* request t is between its is_finished check and the end of its ref.step
InTurn(t) ==
    req_pc[t] \in {"run_player", "player_in_flight", "run_opponent",
                   "opponent_in_flight", "step"}

\* C14: in a turn the two invocations run concurrently, neither waiting for
\* the other: no request holds the result of one side's invocation while the
\* other side's has not been started; and ref.step is reached only when both
\* have returned or timed out.
Claim_C14 ==
    \A t \in Reqs :
        /\ \A side \in SideSet : Returned(t, side) => Started(t, Other(side))
        /\ req_pc[t] = "step" => \A side \in SideSet : Returned(t, side)

\* C15: at most one request on the match is between its is_finished check
\* and the end of its ref.step call.
Claim_C15 == Cardinality({t \in Reqs : InTurn(t)}) <= 1

----------------------------------------------------------------------------
(* Vocabulary of the properties of the abilities *)

\* the cells between two cells of GridC, where every shortest path has the
\* length of the Manhattan distance
Dist(a, b) == Abs(a[1] - b[1]) + Abs(a[2] - b[2])

\* the pacs that were alive before the step and are in the roster after it
Stepped == {i \in DOMAIN pacs \cap DOMAIN pacs' : ~pacs[i].dead}

----------------------------------------------------------------------------
(* Vocabulary of the properties of the commands *)

RPS == {ROCK, PAPER, SCISSORS}

\* request t goes through its call of ref.step in this transition
StepOf(t) == req_pc[t] = "step" /\ req_pc'[t] = "done"

\* the command names a pac that is in the roster when step reads the
\* commands, alive and owned by the side
NamesOwnLiving(ps, side, cmd) ==
    /\ cmd.pac \in DOMAIN ps
    /\ ~ps[cmd.pac].dead
    /\ ps[cmd.pac].owner = side

\* the commands of a side with those naming a foreign, dead or absent pac removed
ValidOnly(ps, side, cmds) ==
    LET Keep(cmd) == NamesOwnLiving(ps, side, cmd)
    IN SelectSeq(cmds, Keep)

\* C17: a pac's type changes only with its cooldown at 0 (after the turn's
\* tick) and the switch ability enabled, the new type is Rock, Paper or
\* Scissors and the cooldown is then 10; and the codec hands no SWITCH with
\* another type to step, so that every pac of a match with the switch
\* ability keeps a type among Rock, Paper and Scissors.
Claim_C17 ==
    /\ [](\A t \in Reqs, side \in SideSet :
            \A k \in 1..Len(req_actions[t][side]) :
                req_actions[t][side][k].kind = "SWITCH" =>
                    req_actions[t][side][k].new_type \in RPS)
    /\ [](cfg.switch_ability_available => \A i \in DOMAIN pacs : pacs[i].type \in RPS)
    /\ [][IsStep =>
            \A i \in Stepped :
                pacs'[i].type # pacs[i].type =>
                    /\ can_use_ability(tick(pacs[i]))
                    /\ cfg.switch_ability_available
                    /\ pacs'[i].type \in RPS
                    /\ pacs'[i].ability_cooldown = 10]_vars

\* C18: the commands that name a pac of the other side, a dead pac or a pac
\* that does not exist change nothing: step leaves the pacs, pellets, cherries
\* and scores that it leaves when given only the other commands of the two
\* lines, which therefore all take effect.
Thm_C18 ==
    [][\A t \in Reqs :
          StepOf(t) =>
              \E r \in {step_result(cfg, pacs, pellets, cherries, scores, bot_failed, turn,
                            [side \in SideSet |->
                                ValidOnly(cleanup(pacs), side, req_actions[t][side])])} :
                  /\ pacs' = r.pacs
                  /\ pellets' = r.pellets
                  /\ cherries' = r.cherries
                  /\ scores' = r.scores]_vars

\* the player's line named the opponent's pac and then its own: only its own
\* pac has moved
Wit_C18 ==
    /\ req_pc[1] = "done"
    /\ steps_recorded = 1
    /\ req_actions[1]["player"] = <<MoveCmd(2, <<2, 2>>), MoveCmd(1, <<2, 2>>)>>
    /\ req_actions[1]["opponent"] = <<MoveCmd(2, <<3, 2>>)>>
    /\ pacs[1].position = <<2, 2>>
    /\ pacs[2].position = <<3, 2>>

\* C19: every command of a turn that is rejected has its line in the stderr
\* of the step: a MOVE, SPEED or SWITCH that names a foreign, dead or absent
\* pac, a MOVE for which there is no path, an ability the ruleset disables.
Claim_C19 ==
    [][\A t \in Reqs :
          StepOf(t) =>
              \A side \in SideSet :
                  \A k \in 1..Len(req_actions[t][side]) :
                      LET cmd == req_actions[t][side][k]
                          ps == cleanup(pacs)
                          lines == step_stderr(cfg, pacs, req_actions[t])
                      IN /\ ~NamesOwnLiving(ps, side, cmd) =>
                               \E l \in lines : l.bot = side /\ l.pac \in {cmd.pac, 0}
                         /\ (/\ cmd.kind = "MOVE"
                             /\ NamesOwnLiving(ps, side, cmd)
                             /\ bfs_path(cfg.grid, ps[cmd.pac].position, cmd.target) = <<>>) =>
                               \E l \in lines : l.bot = side /\ l.pac = cmd.pac
                         /\ (cmd.kind = "SPEED" /\ ~cfg.speed_ability_available) =>
                               \E l \in lines : l.bot = side
                         /\ (cmd.kind = "SWITCH" /\ ~cfg.switch_ability_available) =>
                               \E l \in lines : l.bot = side]_vars

\* C20: the output of a bot that ended with status 0 never makes the call
\* fail: ref.on_bot_timeout is not called, and the action returned is what
\* the codec keeps of the first line that is not blank, which is no command
\* at all for an empty output or a line without a valid sub-command.
Claim_C20 ==
    (call_pc = "returned" /\ call_ret.run_rc = 0) =>
        /\ ~call_ret.timeout_called
        /\ ~call_ret.stay
        /\ call_ret.action = parse_bot_output(call_ret.stdout)

\* the intentions Phase 2 of the step registers for the commands of request t
StepIntentions(t) ==
    phase2(cfg, tick_all(cleanup(pacs)), req_actions[t], 1, <<>>).intentions

\* C21: a MOVE of a side's living pac to the cell the pac stands on is
\* rejected: the step's stderr has a line of that side for that pac, and no
\* intention whose path is that single cell is registered for the pac.
Claim_C21 ==
    [][\A t \in Reqs :
          StepOf(t) =>
              \A side \in SideSet :
                  \A k \in 1..Len(req_actions[t][side]) :
                      LET cmd == req_actions[t][side][k]
                          ps == cleanup(pacs)
                      IN (/\ cmd.kind = "MOVE"
                          /\ NamesOwnLiving(ps, side, cmd)
                          /\ cmd.target = ps[cmd.pac].position) =>
                            /\ \E l \in step_stderr(cfg, pacs, req_actions[t]) :
                                  l.bot = side /\ l.pac = cmd.pac
                            /\ \A n \in 1..Len(StepIntentions(t)) :
                                  StepIntentions(t)[n].pac_id = cmd.pac =>
                                      StepIntentions(t)[n].path # <<cmd.target>>]_vars

\* a and b are next to each other: in the same column one row apart, or in
\* the same row one column apart, the first and the last column being neighbours
Adjacent(grid, a, b) ==
    \/ a[1] = b[1] /\ Abs(a[2] - b[2]) = 1
    \/ /\ a[2] = b[2]
       /\ \/ Abs(a[1] - b[1]) = 1
          \/ {a[1], b[1]} = {0, grid.width - 1} /\ a[1] # b[1]

\* the floor cells at k moves at most from start
RECURSIVE Within(_, _, _)
Within(grid, start, k) ==
    IF k = 0 THEN {start}
    ELSE LET W == Within(grid, start, k - 1)
         IN W \cup {c \in grid.floor : \E d \in W : Adjacent(grid, d, c)}

Reachable(grid, start) == Within(grid, start, Cardinality(grid.floor))

\* the least number of moves from start to a reachable target
PathDist(grid, start, target) ==
    CHOOSE k \in 0..Cardinality(grid.floor) :
        /\ target \in Within(grid, start, k)
        /\ \A j \in 0..(k - 1) : target \notin Within(grid, start, j)

Thm_C23 ==
    [][IsStep =>
          \A i \in DOMAIN pacs' :
              pacs'[i].dead =>
                  /\ pacs'[i].type # NEUTRAL
                  /\ \E j \in DOMAIN pacs' :
                        /\ pacs'[j].owner # pacs'[i].owner
                        /\ pacs'[j].position = pacs'[i].position
                        /\ pacs'[j].type # NEUTRAL]_vars

\* a step has left a Neutral pac and a pac of the other side that is not
\* Neutral on the same cell, both alive
Wit_C23 ==
    /\ steps_recorded >= 1
    /\ \E i, j \in DOMAIN pacs :
          /\ pacs[i].owner # pacs[j].owner
          /\ pacs[i].position = pacs[j].position
          /\ pacs[i].type = NEUTRAL
          /\ pacs[j].type # NEUTRAL
          /\ ~pacs[i].dead
          /\ ~pacs[j].dead

\* where the lines of the pacs stand in a turn input, and the pacs they name
PacLines(lines) == 3..(2 + lines[2][1])

Listed(lines) == {lines[k][1] : k \in PacLines(lines)}

Symmetric(grid) ==
    \A c \in GridCells(grid.width, grid.height) :
        c \in grid.floor <=> <<grid.width - 1 - c[1], c[2]>> \in grid.floor

\* the cells of S one move away from a cell of W, the rows and the columns
\* not wrapping
Next4(S, W) ==
    {c \in S : \E d \in W : Abs(c[1] - d[1]) + Abs(c[2] - d[2]) = 1}

RECURSIVE Component(_, _, _)
Component(S, W, k) ==
    IF k = 0 THEN W ELSE Component(S, W \cup Next4(S, W), k - 1)

\* the cells of S hold together
Connected4(S) ==
    S = {} \/ Component(S, {CHOOSE c \in S : TRUE}, Cardinality(S)) = S

\* C25: on a mirror-symmetric grid _spawn_pacs returns, with pacs_per_player
\* living pacs for each side, all on floor cells, the i-th pac of the
\* opponent standing on the mirror image of the cell of the i-th pac of the
\* player and having its type.
Claim_C25 ==
    (fn_pc \in {"spawned", "raised"} /\ Symmetric(fn_ret.grid)) =>
        LET n == fn_ret.config.pacs_per_player
            ps == fn_ret.pacs
            g == fn_ret.grid
        IN /\ fn_pc = "spawned"
           /\ DOMAIN ps = 1..(2 * n)
           /\ \A i \in 1..n :
                 /\ ps[i].owner = "player" /\ ps[n + i].owner = "opponent"
                 /\ ~ps[i].dead /\ ~ps[n + i].dead
                 /\ ps[i].position \in g.floor /\ ps[n + i].position \in g.floor
                 /\ ps[n + i].position = <<g.width - 1 - ps[i].position[1], ps[i].position[2]>>
                 /\ ps[n + i].type = ps[i].type

\* C26: the grid is mirror-symmetric once the mini grid is mirrored, after
\* the tunnels are narrowed and after the islands are removed.
Claim_C26 ==
    fn_pc \in {"tunnels", "islands", "generated"} => Symmetric(fn_ret)

\* C27: in the grid generate_with_horizontal_symmetry returns, the floor
\* cells hold together without the wrap edge, and the top and the bottom row
\* are walls.
Thm_C27 ==
    fn_pc = "generated" =>
        /\ Connected4(fn_ret.floor)
        /\ \A c \in fn_ret.floor : c[2] # 0 /\ c[2] # fn_ret.height - 1

\* a grid returned with floor on one side only: _remove_islands has walled
\* the island of the other side
Wit_C27 ==
    /\ fn_pc = "generated"
    /\ fn_ret.floor # {}
    /\ \A c \in fn_ret.floor : 2 * c[1] < fn_ret.width - 1

\* C28: a line of well-formed commands joined with '|', passed through
\* parse_bot_output and read by step, gives the same commands in the same
\* order, with the same pac ids, target cells and types.
Thm_C28 ==
    fn_pc = "returned" => fn_ret = fn_args

\* a MOVE and a SWITCH of the same line have come back
Wit_C28 ==
    /\ fn_pc = "returned"
    /\ fn_args = <<MoveCmd(1, <<2, 3>>), SwitchCmd(2, PAPER)>>
    /\ fn_ret = <<MoveCmd(1, <<2, 3>>), SwitchCmd(2, PAPER)>>

\* the lines of the collectibles in a turn input
ItemLines(lines) == (4 + lines[2][1])..Len(lines)

\* C29: in the turn input of side s, the first line is the score of s then
\* the score of the other side; the second line counts the lines of the
\* pacs and the living pacs; each living pac has one line, with mine = 1 iff
\* it is of side s; the line after them counts the pellets and the cherries,
\* which each have their line, of value 1 for a pellet and cherry_score for
\* a cherry.
Claim_C29 ==
    fn_pc = "returned" =>
        LET lines == fn_ret
            s == fn_args.bot_id
            n == lines[2][1]
        IN /\ lines[1] = <<fn_args.scores[s], fn_args.scores[Other(s)]>>
           /\ n = Cardinality(DOMAIN fn_args.living)
           /\ Len(lines) >= 3 + n
           /\ \A i \in DOMAIN fn_args.living :
                 /\ Cardinality({k \in PacLines(lines) : lines[k][1] = i}) = 1
                 /\ \A k \in PacLines(lines) :
                       lines[k][1] = i =>
                           /\ lines[k][2] = IF fn_args.living[i].owner = s THEN 1 ELSE 0
                           /\ <<lines[k][3], lines[k][4]>> = fn_args.living[i].position
           /\ lines[3 + n][1] = Cardinality(fn_args.pellets) + Cardinality(fn_args.cherries)
           /\ Len(lines) = 3 + n + lines[3 + n][1]
           /\ {lines[k] : k \in ItemLines(lines)} =
                 {<<c[1], c[2], 1>> : c \in fn_args.pellets}
                 \cup {<<c[1], c[2], cherry_score>> : c \in fn_args.cherries}


\* the pacs Phase 2 of the step of request t leaves, and where they stand
StepPacs(t) ==
    phase2(cfg, tick_all(cleanup(pacs)), req_actions[t], 1, <<>>).pacs

StepOldPositions(t) == [i \in DOMAIN StepPacs(t) |-> StepPacs(t)[i].position]

\* the first micro-step of that step: the pacs when the collisions are
\* resolved, and the moves that are left to apply
FirstMicroStep(t) ==
    LET moves == step_moves(StepPacs(t), StepIntentions(t), 0, 1)
    IN IF moves = <<>> THEN [pacs |-> StepPacs(t), moves |-> <<>>, stop |-> TRUE]
       ELSE LET r == resolve_collisions(StepPacs(t), moves, StepOldPositions(t), 0)
            IN [pacs |-> r.pacs, moves |-> r.moves, stop |-> FALSE]

\* the pacs between the two micro-steps
AfterFirstMicroStep(t) == apply_moves(FirstMicroStep(t).pacs, FirstMicroStep(t).moves)

\* the second micro-step, which an empty first one cancels
SecondMicroStep(t) ==
    LET moves == IF FirstMicroStep(t).stop THEN <<>>
                 ELSE step_moves(AfterFirstMicroStep(t), StepIntentions(t), 1, 1)
    IN IF moves = <<>> THEN [pacs |-> AfterFirstMicroStep(t), moves |-> <<>>]
       ELSE LET r == resolve_collisions(AfterFirstMicroStep(t), moves, StepOldPositions(t), 0)
            IN [pacs |-> r.pacs, moves |-> r.moves]

\* the moves the step applies: the pac, the micro-step, the cell the pac
\* stood on before the micro-step and the cell the move puts it on
Committed(t) ==
    {[pac_id |-> FirstMicroStep(t).moves[k].pac_id, move_step |-> 0,
      from |-> StepPacs(t)[FirstMicroStep(t).moves[k].pac_id].position,
      to |-> FirstMicroStep(t).moves[k].pos] : k \in 1..Len(FirstMicroStep(t).moves)}
    \cup
    {[pac_id |-> SecondMicroStep(t).moves[k].pac_id, move_step |-> 1,
      from |-> AfterFirstMicroStep(t)[SecondMicroStep(t).moves[k].pac_id].position,
      to |-> SecondMicroStep(t).moves[k].pos] : k \in 1..Len(SecondMicroStep(t).moves)}

\* C30: every move a step applies in a micro-step puts the pac on a cell next
\* to the one it stood on before that micro-step (the first and the last
\* column being neighbours), also in the second micro-step of a pac under
\* SPEED that the first micro-step has blocked.
Claim_C30 ==
    [][\A t \in Reqs :
          StepOf(t) =>
              \A m \in Committed(t) : Adjacent(cfg.grid, m.from, m.to)]_vars


\* the pacs whose move micro-step move_step of the step of request t takes
\* away: they are in its step_moves and not in the moves it applies
RolledBack(t, move_step) ==
    LET before == IF move_step = 0 THEN StepPacs(t) ELSE AfterFirstMicroStep(t)
        moves == IF move_step = 1 /\ FirstMicroStep(t).stop THEN <<>>
                 ELSE step_moves(before, StepIntentions(t), move_step, 1)
    IN {moves[k].pac_id : k \in 1..Len(moves)}
       \ {m.pac_id : m \in {n \in Committed(t) : n.move_step = move_step}}

\* C31: a pac rolled back in a micro-step ends the micro-step on the cell it
\* stood on when the micro-step began; a pac under SPEED that is rolled back
\* in the second micro-step keeps the cell the first one took it to.
Claim_C31 ==
    [][\A t \in Reqs :
          StepOf(t) =>
              /\ \A i \in RolledBack(t, 0) :
                    AfterFirstMicroStep(t)[i].position = StepPacs(t)[i].position
              /\ \A i \in RolledBack(t, 1) :
                    /\ SecondMicroStep(t).pacs[i].position = AfterFirstMicroStep(t)[i].position
                    /\ pacs'[i].position = AfterFirstMicroStep(t)[i].position]_vars


\* the moves micro-step move_step of the step of request t starts with, before
\* the collisions are resolved: the pac, the cell it stands on, the next cell
Heading(t, move_step) ==
    LET before == IF move_step = 0 THEN StepPacs(t) ELSE AfterFirstMicroStep(t)
        moves == IF move_step = 1 /\ FirstMicroStep(t).stop THEN <<>>
                 ELSE step_moves(before, StepIntentions(t), move_step, 1)
    IN {[pac_id |-> moves[k].pac_id, from |-> before[moves[k].pac_id].position,
         to |-> moves[k].pos] : k \in 1..Len(moves)}

\* the pacs that micro-step moves
Moved(t, move_step) == {m.pac_id : m \in {n \in Committed(t) : n.move_step = move_step}}

\* two of these moves take each pac to the cell of the other
Crossing(a, b) == a.pac_id # b.pac_id /\ a.to = b.from /\ b.to = a.from

Converged(t, move_step) ==
    LET before == IF move_step = 0 THEN StepPacs(t) ELSE AfterFirstMicroStep(t)
        moves == IF move_step = 1 /\ FirstMicroStep(t).stop THEN <<>>
                 ELSE step_moves(before, StepIntentions(t), move_step, 1)
    IN moves # <<>> =>
          resolve_collisions(before, moves, StepOldPositions(t), 0).converged

\* C33: the collision resolution of every micro-step ends on an iteration
\* that finds no collision, within max_iterations, and no two pacs that a
\* micro-step moves onto the same cell have the same owner or the same type,
\* whatever other pacs it moves there with them.
Claim_C33 ==
    [][\A t \in Reqs :
          StepOf(t) =>
              \A move_step \in {0, 1} :
                  /\ Converged(t, move_step)
                  /\ \A m, n \in {c \in Committed(t) : c.move_step = move_step} :
                        (m.pac_id # n.pac_id /\ m.to = n.to) =>
                            /\ StepPacs(t)[m.pac_id].owner # StepPacs(t)[n.pac_id].owner
                            /\ StepPacs(t)[m.pac_id].type # StepPacs(t)[n.pac_id].type]_vars


\* C34: every pac stands on a floor cell, every pellet and every cherry lies
\* on a floor cell, no cell holds both a pellet and a cherry, and no step or
\* other operation of the referee adds a pellet or a cherry.
Thm_C34 ==
    /\ [](/\ \A i \in DOMAIN pacs : pacs[i].position \in cfg.grid.floor
          /\ pellets \subseteq cfg.grid.floor
          /\ cherries \subseteq cfg.grid.floor
          /\ pellets \cap cherries = {})
    /\ [][pellets' \subseteq pellets /\ cherries' \subseteq cherries]_vars

\* a match with a cherry in which the cherry and the pellet have been eaten
Wit_C34 ==
    /\ cfg.num_cherries = 1
    /\ bot_failed = "none"
    /\ steps_recorded >= 2
    /\ cherries = {}
    /\ pellets = {}


\* C35: run_match lets the referee execute a step only when the process of
\* the bot whose failure the referee has recorded is killed, writes turn
\* inputs only while no failure is recorded, and has killed both processes
\* when it has returned.
Claim_C35 ==
    /\ [][(match_pc = "step" /\ match_pc' = "loop") =>
             \A side \in SideSet :
                 ref_v1.bot_failed = side => proc[side] = "killed"]_vars
    /\ [][(match_pc = "send" /\ match_pc' = "read_player") =>
             ref_v1.bot_failed = "none"]_vars
    /\ [](match_pc = "returned" => \A side \in SideSet : proc[side] = "killed")


path_this_turn(old_positions, committed, i) ==
    LET applied(move_step) == {m \in committed : m.pac_id = i /\ m.move_step = move_step}
        cells(move_step) == IF applied(move_step) = {} THEN <<>>
                            ELSE <<(CHOOSE m \in applied(move_step) : TRUE).to>>
    IN <<old_positions[i]>> \o cells(0) \o cells(1)

\* C37: after a step the path of every pac begins on the cell the pac stood
\* on before the step and ends on the cell the pac stands on.
Claim_C37 ==
    [][\A t \in Reqs :
          StepOf(t) =>
              LET old_positions == StepOldPositions(t)
                  committed == Committed(t)
              IN \A i \in DOMAIN old_positions :
                    LET path == path_this_turn(old_positions, committed, i)
                    IN /\ path[1] = pacs[i].position
                       /\ path[Len(path)] = pacs'[i].position]_vars


\* C38: bot_failed is written once in a match.  Once on_bot_timeout has set
\* it, no transition changes it, and none lowers the score of the other side.
Claim_C38 ==
    [][bot_failed # "none" =>
          /\ bot_failed' = bot_failed
          /\ scores'[Other(bot_failed)] >= scores[Other(bot_failed)]]_vars


\* C39: through the turn handler of the service layer the turn never exceeds
\* max_turns, and once a bot failure is recorded the handler changes no pac
\* position, no pellet, no cherry and no score.
Claim_C39 ==
    /\ [](turn <= MaxTurns)
    /\ [][bot_failed # "none" =>
             /\ \A i \in DOMAIN pacs' : pacs'[i].position = pacs[i].position
             /\ pellets' = pellets
             /\ cherries' = cherries
             /\ scores' = scores]_vars


\* C40: the ability counters of every living pac stay in their ranges, the
\* duration between 0 and 6 and the cooldown between 0 and 10; the speed is 2
\* exactly while the duration is positive, and 1 otherwise; while the duration
\* is positive the cooldown is the duration plus 4.  So an ability succeeds
\* only on a pac whose cooldown has run out, it leaves the cooldown at 10, and
\* no step both changes the type of a pac by SWITCH and activates its SPEED.
Thm_C40 ==
    /\ [](\A i \in DOMAIN pacs :
            ~pacs[i].dead =>
                /\ pacs[i].ability_duration \in 0..6
                /\ pacs[i].ability_cooldown \in 0..10
                /\ pacs[i].speed = (IF pacs[i].ability_duration > 0 THEN 2 ELSE 1)
                /\ pacs[i].ability_duration > 0 =>
                      pacs[i].ability_cooldown = pacs[i].ability_duration + 4)
    /\ [][IsStep =>
            \A i \in DOMAIN pacs' :
                /\ ~(pacs'[i].type # pacs[i].type /\ pacs'[i].ability_duration = 6)
                /\ (pacs'[i].type # pacs[i].type \/ pacs'[i].ability_duration = 6) =>
                      /\ tick(pacs[i]).ability_cooldown = 0
                      /\ pacs'[i].ability_cooldown = 10]_vars

\* A pac that has used SWITCH, has waited for the cooldown to run out and has
\* activated SPEED in the step just taken.
Wit_C40 ==
    /\ 1 \in DOMAIN pacs
    /\ ~pacs[1].dead
    /\ pacs[1].type = SCISSORS
    /\ pacs[1].ability_duration = 6
    /\ pacs[1].ability_cooldown = 10
    /\ steps_recorded >= 11

====
